---- MODULE Spec2Model ----
(***************************************************************************)
(* Model of the PDF batch compression pipeline of yilas/toolbox:           *)
(*   - the web handler `compress` and `process_single_pdf`                 *)
(*     (src/tools_dev/pdf/web/app.py),                                     *)
(*   - the command line tool `compress_pdf` / `add_metadata`               *)
(*     (src/tools_cli/pdf/compress_pdf.py).                                *)
(*                                                                         *)
(* Texts (filenames, titles, dates) are sequences of one-character         *)
(* strings, so that lower(), endswith(), splitext() and strptime() are     *)
(* computed the way Python computes them.                                  *)
(***************************************************************************)
EXTENDS Integers, Sequences, FiniteSets, TLC

\* ------------------------------------------------------------------------
\* Bounds of the model
\* ------------------------------------------------------------------------
\* Largest number of uploaded files in one request.
MaxFiles == 3

\* ------------------------------------------------------------------------
\* Python values
\* ------------------------------------------------------------------------
\* Python's None. It is not a text: texts hold one-character strings only.
None == <<"None">>

\* Python truthiness of an optional text: None and "" are falsy.
Truthy(x) == x # None /\ x # <<>>

UpperLetters == <<"A","B","C","D","E","F","G","H","I","J","K","L","M",
                  "N","O","P","Q","R","S","T","U","V","W","X","Y","Z">>
LowerLetters == <<"a","b","c","d","e","f","g","h","i","j","k","l","m",
                  "n","o","p","q","r","s","t","u","v","w","x","y","z">>

\* str.lower() on one character.
LowerChar(c) ==
    IF \E n \in 1..26 : UpperLetters[n] = c
    THEN LowerLetters[CHOOSE n \in 1..26 : UpperLetters[n] = c]
    ELSE c

\* str.lower()
Lower(s) == [n \in 1..Len(s) |-> LowerChar(s[n])]

\* str.endswith(suffix)
EndsWith(s, suffix) ==
    /\ Len(s) >= Len(suffix)
    /\ SubSeq(s, Len(s) - Len(suffix) + 1, Len(s)) = suffix

\* str.rfind(c), 1-based; 0 when c does not occur (Python: -1).
RFind(s, c) ==
    IF \E n \in 1..Len(s) : s[n] = c
    THEN CHOOSE n \in 1..Len(s) : s[n] = c /\ \A m \in (n+1)..Len(s) : s[m] # c
    ELSE 0

\* os.path.splitext(p)[0]: the extension starts at the last dot of the last
\* path component, unless that component has only dots before it.
SplitextRoot(p) ==
    LET sepIndex == RFind(p, "/")
        dotIndex == RFind(p, ".")
    IN  IF /\ dotIndex > sepIndex
           /\ \E n \in (sepIndex + 1)..(dotIndex - 1) : p[n] # "."
        THEN SubSeq(p, 1, dotIndex - 1)
        ELSE p

\* str.replace(old, new) for one-character old and new.
Replace(s, old, new) == [n \in 1..Len(s) |-> IF s[n] = old THEN new ELSE s[n]]

\* ------------------------------------------------------------------------
\* datetime.strptime / strftime, as CPython's _strptime computes them
\* ------------------------------------------------------------------------
Digits == <<"0","1","2","3","4","5","6","7","8","9">>
D09 == {Digits[n] : n \in 1..10}
D19 == D09 \ {"0"}

DigitVal(c) == (CHOOSE n \in 1..10 : Digits[n] = c) - 1

\* int(text) of a matched group: digits, possibly after a blank (" 5").
RECURSIVE ToInt(_)
ToInt(t) ==
    IF t = <<>> THEN 0
    ELSE IF t[Len(t)] \in D09
         THEN 10 * ToInt(SubSeq(t, 1, Len(t) - 1)) + DigitVal(t[Len(t)])
         ELSE ToInt(SubSeq(t, 1, Len(t) - 1))

\* The regular expression of each directive: alternatives in the order the
\* regex engine tries them, each a sequence of character classes.
ReY == << <<D09, D09, D09, D09>> >>
Rem == << <<{"1"}, {"0","1","2"}>>, <<{"0"}, D19>>, <<D19>> >>
Red == << <<{"3"}, {"0","1"}>>, <<{"1","2"}, D09>>, <<{"0"}, D19>>, <<D19>>,
          <<{" "}, D19>> >>
ReH == << <<{"2"}, {"0","1","2","3"}>>, <<{"0","1"}, D09>>, <<D09>> >>
ReM == << <<{"0","1","2","3","4","5"}, D09>>, <<D09>> >>
ReS == << <<{"6"}, {"0","1"}>>, <<{"0","1","2","3","4","5"}, D09>>, <<D09>> >>
\* A literal character of the format.
ReLit(c) == << <<{c}>> >>
\* Whitespace in the format becomes \s+ (greedy; texts here are short).
ReWs == << <<{" "}, {" "}, {" "}>>, <<{" "}, {" "}>>, <<{" "}>> >>

\* "%Y-%m-%d"
FmtDate == <<ReY, ReLit("-"), Rem, ReLit("-"), Red>>
\* "%Y-%m-%d %H:%M"
FmtDateHM == FmtDate \o <<ReWs, ReH, ReLit(":"), ReM>>
\* "%Y-%m-%d %H:%M:%S"
FmtDateHMS == FmtDateHM \o <<ReLit(":"), ReS>>

MatchAlt(s, pos, alt) ==
    /\ pos + Len(alt) - 1 <= Len(s)
    /\ \A j \in 1..Len(alt) : s[pos + j - 1] \in alt[j]

NoMatch == [ok |-> FALSE, end |-> 0, groups |-> <<>>]

\* re.match of the format's regex at pos: the k-th directive tries its
\* alternatives from the a-th on, in order, and backtracks to the next one
\* when the rest of the format does not match.
RECURSIVE MatchFrom(_, _, _, _, _)
MatchFrom(s, pos, fmt, k, a) ==
    IF k > Len(fmt) THEN [ok |-> TRUE, end |-> pos, groups |-> <<>>]
    ELSE IF a > Len(fmt[k]) THEN NoMatch
    ELSE LET alt == fmt[k][a]
         IN  IF ~MatchAlt(s, pos, alt) THEN MatchFrom(s, pos, fmt, k, a + 1)
             ELSE LET rest == MatchFrom(s, pos + Len(alt), fmt, k + 1, 1)
                  IN  IF rest.ok
                      THEN [ok |-> TRUE, end |-> rest.end,
                            groups |-> <<SubSeq(s, pos, pos + Len(alt) - 1)>>
                                         \o rest.groups]
                      ELSE MatchFrom(s, pos, fmt, k, a + 1)

IsLeap(y) == y % 4 = 0 /\ (y % 100 # 0 \/ y % 400 = 0)

DaysInMonth(y, m) ==
    IF m = 2 THEN (IF IsLeap(y) THEN 29 ELSE 28)
    ELSE IF m \in {4, 6, 9, 11} THEN 30 ELSE 31

\* The exception ValueError, as a result.
ValueError == [ok |-> FALSE]

\* datetime.strptime(s, fmt): the regex must match and consume the whole
\* text ("unconverted data remains" otherwise), and the fields must form a
\* date datetime() accepts.
Strptime(s, fmt) ==
    LET m == MatchFrom(s, 1, fmt, 1, 1)
    IN  IF ~m.ok \/ m.end # Len(s) + 1 THEN ValueError
        ELSE LET g == m.groups
                 Y == ToInt(g[1])
                 mo == ToInt(g[3])
                 d == ToInt(g[5])
                 H == IF Len(g) >= 7 THEN ToInt(g[7]) ELSE 0
                 M == IF Len(g) >= 9 THEN ToInt(g[9]) ELSE 0
                 S == IF Len(g) >= 11 THEN ToInt(g[11]) ELSE 0
             IN  IF Y < 1 \/ d > DaysInMonth(Y, mo) \/ S > 59 THEN ValueError
                 ELSE [ok |-> TRUE, Y |-> Y, m |-> mo, d |-> d,
                       H |-> H, M |-> M, S |-> S]

Pad2(n) == <<Digits[(n \div 10) + 1], Digits[(n % 10) + 1]>>
Pad4(n) == Pad2(n \div 100) \o Pad2(n % 100)

\* f"D:{dt.strftime('%Y%m%d%H%M%S')}"
PdfDate(dt) ==
    <<"D", ":">> \o Pad4(dt.Y) \o Pad2(dt.m) \o Pad2(dt.d)
                 \o Pad2(dt.H) \o Pad2(dt.M) \o Pad2(dt.S)

\* A variant of format_date_for_pdf that forgets to turn the "T" of a
\* datetime-local field into a space.
format_date_for_pdf_KeepingT(date_str) ==
    IF ~Truthy(date_str) THEN None
    ELSE LET dt == IF Len(date_str) > 10 THEN Strptime(date_str, FmtDateHM)
                   ELSE Strptime(date_str, FmtDate)
         IN  IF dt.ok THEN PdfDate(dt) ELSE None

\* format_date_for_pdf of the web application.
format_date_for_pdf(date_str) ==
    IF ~Truthy(date_str) THEN None
    ELSE LET str == Replace(date_str, "T", " ")
             dt == IF Len(str) > 10 THEN Strptime(str, FmtDateHM)
                   ELSE Strptime(str, FmtDate)
         IN  IF dt.ok THEN PdfDate(dt) ELSE None

\* format_date_for_pdf of the command line tool.
cli_format_date_for_pdf(date_str) ==
    IF ~Truthy(date_str) THEN None
    ELSE LET dt1 == Strptime(date_str, FmtDateHMS)
             dt == IF dt1.ok THEN dt1 ELSE Strptime(date_str, FmtDate)
         IN  IF dt.ok THEN PdfDate(dt) ELSE None

\* Text literals used as inputs.
Txt_2024_01_05 == <<"2","0","2","4","-","0","1","-","0","5">>
Txt_Time_10_30 == <<"1","0",":","3","0">>
Txt_Sec_45 == <<":","4","5">>
Txt_bad == <<"n","o","p","e">>

\* ------------------------------------------------------------------------
\* Metadata mappings (Python dicts keyed by "/Title", "/Author", ...)
\* ------------------------------------------------------------------------
EmptyDict == [x \in {} |-> None]

\* d[k] = v
DictSet(d, k, v) == [x \in DOMAIN d \cup {k} |-> IF x = k THEN v ELSE d[x]]

\* d.get(k)
DictGet(d, k) == IF k \in DOMAIN d THEN d[k] ELSE None

MetaKeys == {"/Title", "/Author", "/Subject", "/CreationDate", "/ModDate"}

Txt_T == <<"T","i","t","l","e">>
Txt_A == <<"A","n","n">>
Txt_S == <<"S","u","b","j">>
Txt_Old == <<"O","l","d">>
Txt_pw == <<"p","w">>
Txt_OldDate == <<"D",":","1","9","9","9">>

\* Metadata a compressed document may already carry (reader.metadata). A
\* document without information dictionary reads as the empty mapping: None
\* and {} are both falsy at "if reader.metadata".
InfoTitled == [x \in {"/Title", "/Producer"} |-> Txt_Old]
InfoFull == [x \in MetaKeys \cup {"/Producer"} |->
               IF x \in {"/CreationDate", "/ModDate"} THEN Txt_OldDate ELSE Txt_Old]

\* new_metadata = {}; if reader.metadata: copy every key.
CopyExisting(existing) ==
    IF existing # None /\ DOMAIN existing # {} THEN existing ELSE EmptyDict

SetIf(d, k, v) == IF Truthy(v) THEN DictSet(d, k, v) ELSE d

\* A variant of WebNewMetadata that falls back to the filename stem only
\* when the document has no title of its own.
WebNewMetadataKeepTitle(filename, metadata_form, existing) ==
    LET m0 == CopyExisting(existing)
        final_title == IF Truthy(metadata_form.title) THEN metadata_form.title
                       ELSE IF "/Title" \in DOMAIN m0 THEN m0["/Title"]
                       ELSE SplitextRoot(filename)
        m1 == SetIf(m0, "/Title", final_title)
        m2 == SetIf(m1, "/Author", metadata_form.author)
        m3 == SetIf(m2, "/Subject", metadata_form.subject)
        m4 == SetIf(m3, "/CreationDate",
                    format_date_for_pdf(metadata_form.created_date))
    IN  SetIf(m4, "/ModDate", format_date_for_pdf(metadata_form.modified_date))

\* process_single_pdf, step "2. Metadonnees": the mapping handed to
\* writer.add_metadata for a file named filename.
WebNewMetadata(filename, metadata_form, existing) ==
    LET final_title == IF Truthy(metadata_form.title) THEN metadata_form.title
                       ELSE SplitextRoot(filename)
        m0 == CopyExisting(existing)
        m1 == SetIf(m0, "/Title", final_title)
        m2 == SetIf(m1, "/Author", metadata_form.author)
        m3 == SetIf(m2, "/Subject", metadata_form.subject)
        m4 == SetIf(m3, "/CreationDate",
                    format_date_for_pdf(metadata_form.created_date))
    IN  SetIf(m4, "/ModDate", format_date_for_pdf(metadata_form.modified_date))

\* add_metadata of the command line tool: the mapping handed to
\* writer.add_metadata.
CliNewMetadata(metadata_args, existing) ==
    LET m0 == CopyExisting(existing)
        m1 == SetIf(m0, "/Title", metadata_args.title)
        m2 == SetIf(m1, "/Author", metadata_args.author)
        m3 == SetIf(m2, "/Subject", metadata_args.subject)
        m4 == IF Truthy(metadata_args.created)
              THEN SetIf(m3, "/CreationDate",
                         cli_format_date_for_pdf(metadata_args.created))
              ELSE m3
    IN  IF Truthy(metadata_args.modified)
        THEN SetIf(m4, "/ModDate", cli_format_date_for_pdf(metadata_args.modified))
        ELSE m4

\* compress_pdf: any([args.title, args.author, args.subject, args.created,
\* args.modified]) decides whether add_metadata runs at all.
CliWantsMetadata(args) ==
    \/ Truthy(args.title) \/ Truthy(args.author) \/ Truthy(args.subject)
    \/ Truthy(args.created) \/ Truthy(args.modified)

\* The metadata of the file compress_pdf leaves at the output path when the
\* engine and the rewrite both succeed.
CliFinalMetadata(args, existing) ==
    IF CliWantsMetadata(args) THEN CliNewMetadata(args, existing)
    ELSE CopyExisting(existing)

\* ------------------------------------------------------------------------
\* The web application: request, environment, working directory
\* ------------------------------------------------------------------------
Txt_gs == <<"g","s">>
Txt_gswin64c == <<"g","s","w","i","n","6","4","c">>
Txt_gswin32c == <<"g","s","w","i","n","3","2","c">>

\* sys.platform and the executables shutil.which finds on the search path.
Environments ==
    { [platform |-> "linux", which |-> {Txt_gs}],
      [platform |-> "win32", which |-> {Txt_gs}],
      [platform |-> "win32", which |-> {Txt_gswin64c}] }

get_ghostscript_command(e) ==
    IF e.platform = "win32"
    THEN IF Txt_gswin64c \in e.which THEN Txt_gswin64c
         ELSE IF Txt_gswin32c \in e.which THEN Txt_gswin32c
         ELSE None
    ELSE IF Txt_gs \in e.which THEN Txt_gs ELSE None

Txt_a_pdf == <<"a",".","p","d","f">>
Txt_B_PDF == <<"B",".","P","D","F">>
Txt_n_txt == <<"n",".","t","x","t">>
Txt_dot_pdf == <<".","p","d","f">>

\* Uploaded files: the declared filename and the metadata the document
\* carries through the engine.
UploadedFiles ==
    { [filename |-> Txt_a_pdf, info |-> EmptyDict],
      [filename |-> Txt_B_PDF, info |-> InfoTitled],
      [filename |-> Txt_n_txt, info |-> EmptyDict] }

\* What a browser submits when no file was selected: one unnamed part.
NothingSelected == << [filename |-> <<>>, info |-> EmptyDict] >>

FormOf(title, author, subject, created, modified, password) ==
    [title |-> title, author |-> author, subject |-> subject,
     created_date |-> created, modified_date |-> modified,
     password |-> password]

\* request.form of the requests the batch model submits.
WebForms ==
    { FormOf(<<>>, None, None, None, None, None),
      FormOf(None, None, None, None, None, Txt_pw),
      FormOf(Txt_T, Txt_A, Txt_S, Txt_2024_01_05, Txt_bad, <<>>) }

\* Sizes of an uploaded file and of a written output (os.path.getsize).
UploadSizes == {0, 2}
OutputSizes == {1, 3}

\* uuid.uuid4() of the n-th call: a fresh identifier each time.
Uuids == <<"u1", "u2", "u3", "u4", "u5", "u6", "u7", "u8">>

UPLOAD_FOLDER == <<"temp_uploads", "/">>
Txt_processed == <<"_","p","r","o","c","e","s","s","e","d","_">>
Txt_final == <<".","f","i","n","a","l">>

InputPath(uid, filename) == UPLOAD_FOLDER \o <<uid, "_">> \o filename
OutputPath(uid, filename) == UPLOAD_FOLDER \o <<uid>> \o Txt_processed \o filename
TempMeta(output_path) == output_path \o Txt_final

\* What a path of the working directory holds.
Upload(uid) == [kind |-> "upload", doc |-> uid, meta |-> EmptyDict, enc |-> None]
Compressed(uid, info) ==
    [kind |-> "compressed", doc |-> uid, meta |-> info, enc |-> None]
Rewritten(uid, meta, password) ==
    [kind |-> "rewritten", doc |-> uid, meta |-> meta, enc |-> password]
Partial(uid) == [kind |-> "partial", doc |-> uid, meta |-> EmptyDict, enc |-> None]
\* A rewritten document of which only a part has been written so far.
PartialRewrite(uid) ==
    [kind |-> "partial_rewrite", doc |-> uid, meta |-> EmptyDict, enc |-> None]

\* The working directory as a mapping path -> content.
Exists(d, path) == path \in DOMAIN d
WriteFile(d, path, c) == [x \in DOMAIN d \cup {path} |-> IF x = path THEN c ELSE d[x]]
\* if os.path.exists(path): os.remove(path)
RemoveIfExists(d, path) == [x \in DOMAIN d \ {path} |-> d[x]]
\* shutil.move(src, dst) within one directory: a rename
MoveFile(d, src, dst) ==
    [x \in (DOMAIN d \ {src}) \cup {dst} |-> IF x = dst THEN d[src] ELSE d[x]]

NoCur == [uid |-> "", filename |-> <<>>, input_path |-> <<>>, output_path |-> <<>>,
          original_size |-> 0, gs |-> None, new_metadata |-> EmptyDict,
          password |-> None]

VARIABLES
    files,            \* request.files.getlist('file')
    metadata_form,    \* the metadata fields of request.form
    env,              \* platform and search path of the server
    pc,               \* position of the handler
    i,                \* index of the file the loop of compress is at
    cur,              \* locals of the running process_single_pdf
    ret,              \* what process_single_pdf returned to compress
    disk,             \* temp_uploads: path -> content
    processed_files,  \* list of (in_p, out_p, name)
    previews,         \* None or the pair of previews
    archive,          \* entries written to the zip so far
    final_file_name,  \* local of compress
    final_file_data,  \* local of compress
    k,                \* index of the assembly / cleanup loops
    response,         \* what compress returned
    outcome,          \* history: per submitted file, how it ended
    removed,          \* history: the paths os.remove was called on
    m_in,             \* metadata merge alone: filename, overrides, existing
    m_web,            \* ... what process_single_pdf hands to add_metadata
    m_cli,            \* ... the metadata compress_pdf leaves in its output
    date_in,          \* date conversion alone: the text entered
    date_web,         \* ... what format_date_for_pdf of app.py returns
    date_cli,         \* ... what format_date_for_pdf of compress_pdf.py returns
    level_in,         \* level mapping alone: the code entered, the files
    web_settings,     \* ... -dPDFSETTINGS of each engine run of the web batch
    cli_settings,     \* ... -dPDFSETTINGS of the engine run of the tool
    cli_in,           \* command line tool: arguments, input file, platform
    cli_pc,           \* ... position of compress_pdf / add_metadata
    cli_disk,         \* ... the directory of the input file: path -> content
    cli_new_metadata, \* ... local of add_metadata
    cli_exit,         \* ... how the run ended and what it printed
    batch_files,      \* concurrent requests: request -> the names it uploads
    batch_env,        \* ... platform and search path of the server
    threads,          \* ... request -> locals of the thread that serves it
    shared_disk,      \* ... temp_uploads, shared: path -> content
    drawn             \* ... number of identifiers uuid4 has returned

vars == <<files, metadata_form, env, pc, i, cur, ret, disk, processed_files,
          previews, archive, final_file_name, final_file_data, k, response,
          outcome, removed, m_in, m_web, m_cli, date_in, date_web, date_cli,
          level_in, web_settings, cli_settings,
          cli_in, cli_pc, cli_disk, cli_new_metadata, cli_exit,
          batch_files, batch_env, threads, shared_disk, drawn>>


NoMergeInput ==
    [filename |-> <<>>, title |-> None, author |-> None, subject |-> None,
     created |-> None, modified |-> None, existing |-> EmptyDict]
NotMerged == [done |-> FALSE, meta |-> EmptyDict]
Merged(meta) == [done |-> TRUE, meta |-> meta]

\* The variables of the metadata merge taken alone.
merge == <<m_in, m_web, m_cli>>
\* The variables of the date conversion taken alone.
NoDateInput == [date |-> <<>>, sep |-> <<>>, time |-> <<>>, text |-> None]
NotCalled == [done |-> FALSE, raised |-> FALSE, value |-> None]
Returns(value) == [done |-> TRUE, raised |-> FALSE, value |-> value]
dates == <<date_in, date_web, date_cli>>
DatesIdle == date_in = NoDateInput /\ date_web = NotCalled /\ date_cli = NotCalled
\* The variables of the compression level taken alone.
NoLevelInput == [code |-> None, count |-> 0]
levels == <<level_in, web_settings, cli_settings>>
LevelsIdle ==
    level_in = NoLevelInput /\ web_settings = <<>> /\ cli_settings = NotCalled
\* The variables of one run of the command line tool.
NoArgs == [title |-> None, author |-> None, subject |-> None,
           created |-> None, modified |-> None]
NoCliInput == [input |-> <<>>, present |-> FALSE, size |-> 0, info |-> EmptyDict,
               args |-> NoArgs, platform |-> "linux", which |-> {}]
Running == [status |-> -1, raised |-> FALSE, reported |-> FALSE, warned |-> FALSE]
tool == <<cli_in, cli_pc, cli_disk, cli_new_metadata, cli_exit>>
ToolIdle ==
    /\ cli_in = NoCliInput
    /\ cli_pc = "idle"
    /\ cli_disk = EmptyDict
    /\ cli_new_metadata = EmptyDict
    /\ cli_exit = Running
\* The variables of the requests served at the same time.
batches == <<batch_files, batch_env, threads, shared_disk, drawn>>
BatchesIdle ==
    /\ batch_files = <<>>
    /\ batch_env = [platform |-> "linux", which |-> {}]
    /\ threads = <<>>
    /\ shared_disk = EmptyDict
    /\ drawn = 0
\* The functions, the tool and the concurrent requests, which the handler
\* of the single request has no part in.
side == <<dates, levels, tool, batches>>
\* The request and the environment never change while the handler runs (and
\* the handler has no part in the merge taken alone).
request == <<files, metadata_form, env, merge, side>>
\* The locals of compress after its loop.
assembly == <<archive, final_file_name, final_file_data, k>>

NoRet == <<>>
\* return None, None, None
FailedResult == <<None, None, None>>

NoResponse == [status |-> 0, file_name |-> None, file_data |-> <<>>,
               previews |-> None, raised |-> FALSE]

Init ==
    /\ files \in UNION {[1..n -> UploadedFiles] : n \in 0..MaxFiles}
                 \cup {NothingSelected}
    /\ metadata_form \in WebForms
    /\ env \in Environments
    /\ pc = "start"
    /\ i = 1
    /\ cur = NoCur
    /\ ret = NoRet
    /\ disk = EmptyDict
    /\ processed_files = <<>>
    /\ previews = None
    /\ archive = <<>>
    /\ final_file_name = <<>>
    /\ final_file_data = None
    /\ k = 1
    /\ response = NoResponse
    /\ outcome = <<>>
    /\ removed = <<>>
    /\ m_in = NoMergeInput
    /\ m_web = NotMerged
    /\ m_cli = NotMerged
    /\ DatesIdle
    /\ LevelsIdle
    /\ ToolIdle
    /\ BatchesIdle

\* ------------------------------------------------------------------------
\* compress: the checks on the request and the loop over the files
\* ------------------------------------------------------------------------
Txt_pdf_ext == <<".","p","d","f">>

\* A variant of IsPdfName that compares the extension as it is written
\* ("file.filename.endswith('.pdf')").
IsPdfNameCaseSensitive(filename) == EndsWith(filename, Txt_pdf_ext)

\* file.filename.lower().endswith('.pdf')
IsPdfName(filename) == EndsWith(Lower(filename), Txt_pdf_ext)

ErrorResponse(status) ==
    [status |-> status, file_name |-> None, file_data |-> <<>>,
     previews |-> None, raised |-> FALSE]

\* An exception left compress: the framework answers 500.
UnhandledResponse ==
    [status |-> 500, file_name |-> None, file_data |-> <<>>,
     previews |-> None, raised |-> TRUE]

\* "if 'file' not in request.files" / "if not files or files[0].filename == ''"
RejectRequest ==
    /\ pc = "start"
    /\ IF files = <<>> THEN TRUE ELSE files[1].filename = <<>>
    /\ response' = ErrorResponse(400)
    /\ pc' = "done"
    /\ UNCHANGED <<request, i, cur, ret, disk, processed_files, previews,
                   assembly, outcome, removed>>

AcceptRequest ==
    /\ pc = "start"
    /\ files # <<>>
    /\ files[1].filename # <<>>
    /\ pc' = "loop"
    /\ UNCHANGED <<request, i, cur, ret, disk, processed_files, previews,
                   assembly, response, outcome, removed>>

Ended(status, c, result) ==
    [status |-> status, uid |-> c.uid, filename |-> c.filename,
     input_path |-> c.input_path, output_path |-> c.output_path,
     result |-> result]

\* A file without the .pdf extension: warning, continue.
SkipFile ==
    /\ pc = "loop"
    /\ i <= Len(files)
    /\ ~IsPdfName(files[i].filename)
    /\ outcome' = Append(outcome,
                         Ended("skipped",
                               [NoCur EXCEPT !.filename = files[i].filename],
                               NoRet))
    /\ i' = i + 1
    /\ UNCHANGED <<request, pc, cur, ret, disk, processed_files, previews,
                   assembly, response, removed>>

\* process_single_pdf is called: the names of its artifacts.
BeginFile ==
    /\ pc = "loop"
    /\ i <= Len(files)
    /\ IsPdfName(files[i].filename)
    /\ LET unique_id == Uuids[i]
           filename == files[i].filename
       IN  cur' = [NoCur EXCEPT !.uid = unique_id,
                                !.filename = filename,
                                !.input_path = InputPath(unique_id, filename),
                                !.output_path = OutputPath(unique_id, filename)]
    /\ pc' = "save"
    /\ UNCHANGED <<request, i, ret, disk, processed_files, previews,
                   assembly, response, outcome, removed>>

\* A variant of Except without the except clause: the exception leaves
\* process_single_pdf and compress.
ExceptEscapes(d) ==
    /\ disk' = d
    /\ response' = UnhandledResponse
    /\ pc' = "done"
    /\ UNCHANGED <<request, i, cur, ret, processed_files, previews, assembly,
                   outcome, removed>>

\* A variant of Except that returns the failed result without deleting the
\* input artifact.
ExceptKeepsInput(d) ==
    /\ disk' = d
    /\ outcome' = Append(outcome, Ended("failed", cur, FailedResult))
    /\ ret' = FailedResult
    /\ cur' = NoCur
    /\ pc' = "collect"
    /\ UNCHANGED <<request, i, processed_files, previews, assembly, response,
                   removed>>

\* The except clause of process_single_pdf, entered with the working
\* directory d: log, delete the input artifact if it exists, return
\* (None, None, None).
Except(d) ==
    /\ disk' = RemoveIfExists(d, cur.input_path)
    /\ removed' = IF Exists(d, cur.input_path)
                  THEN Append(removed, cur.input_path) ELSE removed
    /\ outcome' = Append(outcome, Ended("failed", cur, FailedResult))
    /\ ret' = FailedResult
    /\ cur' = NoCur
    /\ pc' = "collect"
    /\ UNCHANGED <<request, i, processed_files, previews, assembly, response>>

\* The step went well: only the locals, the directory and the position change.
Proceed(next, c, d) ==
    /\ cur' = c
    /\ disk' = d
    /\ pc' = next
    /\ UNCHANGED <<request, i, ret, processed_files, previews, assembly,
                   response, outcome, removed>>

\* file_storage.save(input_path)
Save ==
    /\ pc = "save"
    /\ \/ Proceed("size", cur, WriteFile(disk, cur.input_path, Upload(cur.uid)))
       \/ \E d \in {disk, WriteFile(disk, cur.input_path, Partial(cur.uid))} :
            Except(d)

\* get_file_size_mb(path): the size of the file (the unit does not matter
\* to the ratio; it is zero exactly when the file is empty). app.py calls it
\* (lines 144 and 201) without defining or importing it; it is modelled by
\* its described behaviour, the size of the file at the path.
get_file_size_mb(size) == size

\* original_size = get_file_size_mb(input_path)
GetOriginalSize ==
    /\ pc = "size"
    /\ \E size \in UploadSizes :
         Proceed("which", [cur EXCEPT !.original_size = get_file_size_mb(size)],
                 disk)

\* gs_executable = get_ghostscript_command();
\* if not gs_executable: raise Exception("Ghostscript non trouve.")
FindEngine ==
    /\ pc = "which"
    /\ LET gs_executable == get_ghostscript_command(env)
       IN  IF Truthy(gs_executable)
           THEN Proceed("engine", [cur EXCEPT !.gs = gs_executable], disk)
           ELSE Except(disk)

\* subprocess.run([...], check=True): the engine writes the output path and
\* exits 0, or it fails, having written nothing or part of the output.
RunEngine ==
    /\ pc = "engine"
    /\ \/ Proceed("merge", cur,
                  WriteFile(disk, cur.output_path,
                            Compressed(cur.uid, files[i].info)))
       \/ \E d \in {disk, WriteFile(disk, cur.output_path, Partial(cur.uid))} :
            Except(d)

\* A variant of MergeMetadata after which the password is never looked at:
\* the rewritten file is written without encryption.
MergeMetadataThenWrite ==
    /\ pc = "merge"
    /\ \/ LET existing == disk[cur.output_path].meta
              new_metadata == WebNewMetadata(cur.filename, metadata_form, existing)
          IN  Proceed("write", [cur EXCEPT !.new_metadata = new_metadata], disk)
       \/ Except(disk)

\* reader = PdfReader(output_path) ... writer.add_metadata(new_metadata)
MergeMetadata ==
    /\ pc = "merge"
    /\ \/ LET existing == disk[cur.output_path].meta
              new_metadata == WebNewMetadata(cur.filename, metadata_form, existing)
          IN  Proceed(IF Truthy(metadata_form.password) THEN "encrypt" ELSE "write",
                      [cur EXCEPT !.new_metadata = new_metadata], disk)
       \/ Except(disk)

\* if meta_dict['password']: writer.encrypt(meta_dict['password'])
Encrypt ==
    /\ pc = "encrypt"
    /\ \/ Proceed("write", [cur EXCEPT !.password = metadata_form.password], disk)
       \/ Except(disk)

\* temp_meta = output_path + ".final"; with open(temp_meta, "wb") as f:
\* writer.write(f)
WriteTemp ==
    /\ pc = "write"
    /\ LET temp_meta == TempMeta(cur.output_path)
       IN  \/ Proceed("swap", cur,
                      WriteFile(disk, temp_meta,
                                Rewritten(cur.uid, cur.new_metadata, cur.password)))
           \/ \E d \in {disk, WriteFile(disk, temp_meta, PartialRewrite(cur.uid))} :
                Except(d)

\* os.rename(src, dst) onto an existing file: POSIX replaces the file in one
\* step; on Windows it raises FileExistsError.
RenameReplaces(e) == e.platform # "win32"

\* shutil.move(temp_meta, output_path): os.rename, and when that raises
\* OSError, copy2(src, dst) followed by os.unlink(src). The output path
\* exists at this point, so Windows always takes the copy, which opens the
\* destination for writing and fills it piece by piece.
Swap ==
    /\ pc = "swap"
    /\ IF RenameReplaces(env)
       THEN \/ Proceed("report", cur,
                       MoveFile(disk, TempMeta(cur.output_path), cur.output_path))
            \/ Except(disk)
       ELSE \/ Proceed("copy", cur,
                       WriteFile(disk, cur.output_path, PartialRewrite(cur.uid)))
            \/ Except(disk)

\* The copy of shutil.move ends (and the source is unlinked), or it fails
\* half way.
MoveByCopy ==
    /\ pc = "copy"
    /\ \/ Proceed("report", cur,
                  MoveFile(disk, TempMeta(cur.output_path), cur.output_path))
       \/ Except(disk)

\* reduction = (1 - (new_size / original_size)) * 100, in whole percents.
\* Python raises ZeroDivisionError when original_size is 0.
ReductionDefined(new_size, original_size) == original_size # 0
Reduction(new_size, original_size) ==
    ((original_size - new_size) * 100) \div original_size

\* new_size = get_file_size_mb(output_path); reduction = ...; logger.info;
\* return input_path, output_path, file_storage.filename
Report ==
    /\ pc = "report"
    /\ \E size \in OutputSizes :
         LET new_size == get_file_size_mb(size)
         IN  IF ReductionDefined(new_size, cur.original_size)
             THEN /\ ret' = <<cur.input_path, cur.output_path, cur.filename>>
                  /\ outcome' = Append(outcome,
                                       Ended("done", cur,
                                             <<cur.input_path, cur.output_path,
                                               cur.filename>>))
                  /\ cur' = NoCur
                  /\ pc' = "collect"
                  /\ UNCHANGED <<request, i, disk, processed_files, previews,
                                 assembly, response, removed>>
             ELSE Except(disk)

\* The pair of previews, once both images could be rendered.
BothPreviews == <<"before", "after">>

\* A variant of Collect that deletes the artifacts of a processed file as
\* soon as its previews were tried, inside the loop.
CollectAndRemove ==
    /\ pc = "collect"
    /\ IF Truthy(ret[2])
       THEN /\ processed_files' = Append(processed_files, ret)
            /\ \/ previews' = previews
               \/ previews = None /\ previews' = BothPreviews
            /\ disk' = RemoveIfExists(RemoveIfExists(disk, ret[1]), ret[2])
            /\ removed' = removed \o <<ret[1], ret[2]>>
       ELSE UNCHANGED <<processed_files, previews, disk, removed>>
    /\ ret' = NoRet
    /\ i' = i + 1
    /\ pc' = "loop"
    /\ UNCHANGED <<request, cur, assembly, response, outcome>>

\* in_p, out_p, name = process_single_pdf(...); if out_p: append, and try
\* the previews as long as there are none.
Collect ==
    /\ pc = "collect"
    /\ IF Truthy(ret[2])
       THEN /\ processed_files' = Append(processed_files, ret)
            /\ \/ previews' = previews
               \/ previews = None /\ previews' = BothPreviews
       ELSE UNCHANGED <<processed_files, previews>>
    /\ ret' = NoRet
    /\ i' = i + 1
    /\ pc' = "loop"
    /\ UNCHANGED <<request, cur, disk, assembly, response, outcome, removed>>

\* A variant of BatchEmpty that reports the failure as soon as one file
\* failed.
BatchEmptyOnAnyFailure ==
    /\ pc = "loop"
    /\ i > Len(files)
    /\ \E n \in 1..Len(outcome) : outcome[n].status = "failed"
    /\ response' = ErrorResponse(500)
    /\ pc' = "done"
    /\ UNCHANGED <<request, i, cur, ret, disk, processed_files, previews,
                   assembly, outcome, removed>>

\* if not processed_files: return jsonify({"error": ...}), 500
BatchEmpty ==
    /\ pc = "loop"
    /\ i > Len(files)
    /\ processed_files = <<>>
    /\ response' = ErrorResponse(500)
    /\ pc' = "done"
    /\ UNCHANGED <<request, i, cur, ret, disk, processed_files, previews,
                   assembly, outcome, removed>>

\* An exception that nothing in compress catches.
Unhandled ==
    /\ response' = UnhandledResponse
    /\ pc' = "done"
    /\ UNCHANGED <<request, i, cur, ret, disk, processed_files, previews,
                   assembly, outcome, removed>>

\* The bytes of a download: raw (one unnamed body) or the entries of a zip.
FileData(zip, entries) == [zip |-> zip, entries |-> entries]
Entry(name, content) == [name |-> name, content |-> content]

\* A variant of AssembleSingle that delivers the first output as soon as
\* there is one ("if len(processed_files) >= 1").
AssembleSingleAnyCount ==
    /\ pc = "loop"
    /\ i > Len(files)
    /\ Len(processed_files) >= 1
    /\ final_file_name' = processed_files[1][3]
    /\ final_file_data' = FileData(FALSE, <<Entry(None, disk[processed_files[1][2]])>>)
    /\ k' = 1
    /\ pc' = "cleanup"
    /\ UNCHANGED <<request, i, cur, ret, disk, processed_files, previews,
                   archive, response, outcome, removed>>

\* if len(processed_files) == 1: the output file is read as it is.
AssembleSingle ==
    /\ pc = "loop"
    /\ i > Len(files)
    /\ Len(processed_files) = 1
    /\ LET output_path == processed_files[1][2]
           download_name == processed_files[1][3]
       IN  \/ /\ final_file_name' = download_name
              /\ final_file_data' = FileData(FALSE, <<Entry(None, disk[output_path])>>)
              /\ k' = 1
              /\ pc' = "cleanup"
              /\ UNCHANGED <<request, i, cur, ret, disk, processed_files,
                             previews, archive, response, outcome, removed>>
           \/ Unhandled

Txt_zip_name == <<"d","o","c","u","m","e","n","t","s","_","o","p","t","i","m",
                  "i","s","e","s",".","z","i","p">>

\* A variant of OpenArchive that decides by the number of submitted files.
OpenArchiveBySubmitted ==
    /\ pc = "loop"
    /\ i > Len(files)
    /\ Len(files) # 1
    /\ processed_files # <<>>
    /\ final_file_name' = Txt_zip_name
    /\ archive' = <<>>
    /\ k' = 1
    /\ pc' = "zip"
    /\ UNCHANGED <<request, i, cur, ret, disk, processed_files, previews,
                   final_file_data, response, outcome, removed>>

\* else: final_file_name = "documents_optimises.zip"; the archive is opened.
OpenArchive ==
    /\ pc = "loop"
    /\ i > Len(files)
    /\ Len(processed_files) # 1
    /\ processed_files # <<>>
    /\ final_file_name' = Txt_zip_name
    /\ archive' = <<>>
    /\ k' = 1
    /\ pc' = "zip"
    /\ UNCHANGED <<request, i, cur, ret, disk, processed_files, previews,
                   final_file_data, response, outcome, removed>>

\* os.path.basename(path) of a path of the working directory
Basename(path) == SubSeq(path, Len(UPLOAD_FOLDER) + 1, Len(path))

\* A variant of ZipWrite that names the entry after the output file
\* ("zipf.write(output_path)" with the default name).
ZipWriteWorkingName ==
    /\ pc = "zip"
    /\ k <= Len(processed_files)
    /\ archive' = Append(archive,
                         Entry(Basename(processed_files[k][2]),
                               disk[processed_files[k][2]]))
    /\ k' = k + 1
    /\ UNCHANGED <<request, pc, i, cur, ret, disk, processed_files, previews,
                   final_file_name, final_file_data, response, outcome, removed>>

\* zipf.write(output_path, download_name) for the k-th processed file.
ZipWrite ==
    /\ pc = "zip"
    /\ k <= Len(processed_files)
    /\ LET output_path == processed_files[k][2]
           download_name == processed_files[k][3]
       IN  \/ /\ archive' = Append(archive, Entry(download_name, disk[output_path]))
              /\ k' = k + 1
              /\ UNCHANGED <<request, pc, i, cur, ret, disk, processed_files,
                             previews, final_file_name, final_file_data,
                             response, outcome, removed>>
           \/ Unhandled

\* The archive is closed and read back from the buffer.
CloseArchive ==
    /\ pc = "zip"
    /\ k > Len(processed_files)
    /\ final_file_data' = FileData(TRUE, archive)
    /\ k' = 1
    /\ pc' = "cleanup"
    /\ UNCHANGED <<request, i, cur, ret, disk, processed_files, previews,
                   archive, final_file_name, response, outcome, removed>>

\* "Nettoyage", for the k-th processed file:
\* if os.path.exists(in_p): os.remove(in_p); the same for out_p.
Cleanup ==
    /\ pc = "cleanup"
    /\ k <= Len(processed_files)
    /\ LET in_p == processed_files[k][1]
           out_p == processed_files[k][2]
           d1 == RemoveIfExists(disk, in_p)
           r1 == IF Exists(disk, in_p) THEN Append(removed, in_p) ELSE removed
       IN  /\ disk' = RemoveIfExists(d1, out_p)
           /\ removed' = IF Exists(d1, out_p) THEN Append(r1, out_p) ELSE r1
    /\ k' = k + 1
    /\ UNCHANGED <<request, pc, i, cur, ret, processed_files, previews, archive,
                   final_file_name, final_file_data, response, outcome>>

\* return jsonify({"status": "success", ...})
Respond ==
    /\ pc = "cleanup"
    /\ k > Len(processed_files)
    /\ response' = [status |-> 200, file_name |-> final_file_name,
                    file_data |-> final_file_data, previews |-> previews,
                    raised |-> FALSE]
    /\ pc' = "done"
    /\ UNCHANGED <<request, i, cur, ret, disk, processed_files, previews,
                   assembly, outcome, removed>>

Next ==
    \/ RejectRequest \/ AcceptRequest
    \/ SkipFile \/ BeginFile
    \/ Save \/ GetOriginalSize \/ FindEngine \/ RunEngine \/ MergeMetadata
    \/ Encrypt \/ WriteTemp \/ Swap \/ MoveByCopy \/ Report \/ Collect
    \/ BatchEmpty \/ AssembleSingle \/ OpenArchive \/ ZipWrite \/ CloseArchive
    \/ Cleanup \/ Respond

\* One request to the web application, from its arrival to the response.
Spec == Init /\ [][Next]_vars

\* ------------------------------------------------------------------------
\* The metadata merge taken alone, web and command line, on wider inputs
\* ------------------------------------------------------------------------
Txt_Report_Final_pdf ==
    <<"R","e","p","o","r","t"," ","F","i","n","a","l",".","p","d","f">>
Txt_a_b_pdf == <<"a",".","b",".","p","d","f">>

MergeFilenames ==
    {Txt_a_pdf, Txt_B_PDF, Txt_Report_Final_pdf, Txt_a_b_pdf, Txt_dot_pdf}

Txt_datetime == Txt_2024_01_05 \o <<" ">> \o Txt_Time_10_30

MergeDates == {None, <<>>, Txt_2024_01_05, Txt_datetime,
               Txt_datetime \o Txt_Sec_45, Txt_bad}

MergeInputs ==
    [filename : MergeFilenames,
     title : {None, <<>>, Txt_T},
     author : {None, Txt_A},
     subject : {<<>>, Txt_S},
     created : MergeDates,
     modified : MergeDates,
     existing : {EmptyDict, InfoTitled, InfoFull}]

\* request.form built from the inputs
AsForm(x) == FormOf(x.title, x.author, x.subject, x.created, x.modified, None)

MergeInit ==
    /\ m_in \in MergeInputs
    /\ m_web = NotMerged
    /\ m_cli = NotMerged
    /\ files = <<>>
    /\ metadata_form = AsForm(m_in)
    /\ env \in {e \in Environments : e.platform = "linux"}
    /\ pc = "idle"
    /\ i = 1
    /\ cur = NoCur
    /\ ret = NoRet
    /\ disk = EmptyDict
    /\ processed_files = <<>>
    /\ previews = None
    /\ archive = <<>>
    /\ final_file_name = <<>>
    /\ final_file_data = None
    /\ k = 1
    /\ response = NoResponse
    /\ outcome = <<>>
    /\ removed = <<>>
    /\ DatesIdle
    /\ LevelsIdle
    /\ ToolIdle
    /\ BatchesIdle

handler == <<files, metadata_form, env, pc, i, cur, ret, disk, processed_files,
             previews, archive, final_file_name, final_file_data, k, response,
             outcome, removed>>

\* The merge of process_single_pdf applied to the inputs.
WebMerge ==
    /\ ~m_web.done
    /\ m_web' = Merged(WebNewMetadata(m_in.filename, metadata_form, m_in.existing))
    /\ UNCHANGED <<handler, m_in, m_cli, side>>

\* compress_pdf after a successful compression, applied to the inputs.
CliMerge ==
    /\ ~m_cli.done
    /\ m_cli' = Merged(CliFinalMetadata(m_in, m_in.existing))
    /\ UNCHANGED <<handler, m_in, m_web, side>>

MergeNext == WebMerge \/ CliMerge

MergeSpec == MergeInit /\ [][MergeNext]_vars

\* ------------------------------------------------------------------------
\* The date conversion taken alone, web and command line
\* ------------------------------------------------------------------------
Txt_1999_12_31 == <<"1","9","9","9","-","1","2","-","3","1">>
Txt_2023_02_29 == <<"2","0","2","3","-","0","2","-","2","9">>
Txt_2024_13_01 == <<"2","0","2","4","-","1","3","-","0","1">>
Txt_2024_1_5 == <<"2","0","2","4","-","1","-","5">>
Txt_Time_25_00 == <<"2","5",":","0","0">>
Txt_Time_7_05 == <<"7",":","0","5">>

\* Date parts entered: two dates of the calendar, a day and a month that do
\* not exist, a date without leading zeros, and a text that is no date.
DateTexts == {Txt_2024_01_05, Txt_1999_12_31, Txt_2023_02_29, Txt_2024_13_01,
              Txt_2024_1_5, Txt_bad}
\* Time parts entered: HH:MM, HH:MM:SS, an hour that does not exist, an hour
\* without leading zero.
TimeTexts == {Txt_Time_10_30, Txt_Time_10_30 \o Txt_Sec_45, Txt_Time_25_00,
              Txt_Time_7_05}

DateInput(date, sep, time) ==
    [date |-> date, sep |-> sep, time |-> time, text |-> date \o sep \o time]

\* The texts handed to format_date_for_pdf (date_str), and no text at all.
DateInputs ==
    {DateInput(d, <<>>, <<>>) : d \in DateTexts}
    \cup {DateInput(d, <<c>>, t) : d \in DateTexts, c \in {" ", "T"}, t \in TimeTexts}
    \cup {[NoDateInput EXCEPT !.text = <<>>], NoDateInput}

\* The handler at rest.
HandlerIdle ==
    /\ files = <<>>
    /\ metadata_form = FormOf(None, None, None, None, None, None)
    /\ env \in {e \in Environments : e.platform = "linux"}
    /\ pc = "idle"
    /\ i = 1
    /\ cur = NoCur
    /\ ret = NoRet
    /\ disk = EmptyDict
    /\ processed_files = <<>>
    /\ previews = None
    /\ archive = <<>>
    /\ final_file_name = <<>>
    /\ final_file_data = None
    /\ k = 1
    /\ response = NoResponse
    /\ outcome = <<>>
    /\ removed = <<>>

MergeIdle == m_in = NoMergeInput /\ m_web = NotMerged /\ m_cli = NotMerged

DateInit ==
    /\ date_in \in DateInputs
    /\ date_web = NotCalled
    /\ date_cli = NotCalled
    /\ HandlerIdle
    /\ MergeIdle
    /\ LevelsIdle
    /\ ToolIdle
    /\ BatchesIdle

\* format_date_for_pdf(date_str) of app.py
WebFormatDate ==
    /\ ~date_web.done
    /\ date_web' = Returns(format_date_for_pdf(date_in.text))
    /\ UNCHANGED <<handler, merge, levels, tool, batches, date_in, date_cli>>

\* format_date_for_pdf(date_str) of compress_pdf.py
CliFormatDate ==
    /\ ~date_cli.done
    /\ date_cli' = Returns(cli_format_date_for_pdf(date_in.text))
    /\ UNCHANGED <<handler, merge, levels, tool, batches, date_in, date_web>>

DateNext == WebFormatDate \/ CliFormatDate

DateSpec == DateInit /\ [][DateNext]_vars

\* ------------------------------------------------------------------------
\* The compression level taken alone, web and command line
\* ------------------------------------------------------------------------
\* A Python int and a Python str, told apart as Python does.
PyInt(n) == [type |-> "int", value |-> n]
PyStr(t) == [type |-> "str", value |-> t]

\* str(x) for a str and for an int of one digit.
Str(x) == IF x.type = "int" THEN <<Digits[x.value + 1]>> ELSE x.value

\* str.strip() of blanks
RECURSIVE Strip(_)
Strip(t) ==
    IF t = <<>> THEN t
    ELSE IF t[1] = " " THEN Strip(Tail(t))
    ELSE IF t[Len(t)] = " " THEN Strip(SubSeq(t, 1, Len(t) - 1))
    ELSE t

\* int(text): blanks around, an optional sign, then digits only; anything
\* else raises ValueError.
IntOf(text) ==
    LET t == Strip(text)
        signed == t # <<>> /\ t[1] \in {"+", "-"}
        body == IF signed THEN Tail(t) ELSE t
    IN  IF body = <<>> \/ \E n \in 1..Len(body) : body[n] \notin D09
        THEN ValueError
        ELSE [ok |-> TRUE,
              value |-> IF signed /\ t[1] = "-" THEN 0 - ToInt(body) ELSE ToInt(body)]

\* quality = {'0': '/default', '1': '/prepress', '2': '/printer',
\*            '3': '/ebook', '4': '/screen'}
quality == <<"/default", "/prepress", "/printer", "/ebook", "/screen">>

\* A variant of WebSettings whose table is keyed by ints, as the table of
\* the command line tool is: no text of the form matches a key.
WebSettingsIntKeys(compression_level) ==
    IF compression_level.type = "int" /\ compression_level.value \in 0..4
    THEN quality[compression_level.value + 1]
    ELSE "/printer"

\* process_single_pdf: settings = quality.get(str(compression_level),
\* '/printer'), the keys being the texts '0' to '4'.
WebSettings(compression_level) ==
    LET key == Str(compression_level)
    IN  IF Len(key) = 1 /\ key[1] \in {"0", "1", "2", "3", "4"}
        THEN quality[DigitVal(key[1]) + 1]
        ELSE "/printer"

\* compress: compression_level = request.form.get('compression_level', 2)
WebLevel(code) == IF code = None THEN PyInt(2) ELSE PyStr(code)

\* compress_pdf: settings = quality.get(args.level, '/printer'), the keys
\* being the ints 0 to 4.
CliSettings(level) ==
    IF level \in 0..4 THEN quality[level + 1] ELSE "/printer"

\* The argument parser left the program with status 2.
Exits(status) == [done |-> TRUE, raised |-> TRUE, value |-> status]

\* add_argument("-l", "--level", type=int, choices=[0,1,2,3,4], default=2)
\* and the engine run that follows when the parser accepts the code.
CliRun(code) ==
    IF code = None THEN Returns(CliSettings(2))
    ELSE LET n == IntOf(code)
         IN  IF n.ok /\ n.value \in {0, 1, 2, 3, 4}
             THEN Returns(CliSettings(n.value))
             ELSE Exits(2)

\* Level codes entered: none, the five codes, and others.
LevelCodes ==
    {None, <<"0">>, <<"1">>, <<"2">>, <<"3">>, <<"4">>, <<"5">>, <<>>, <<"x">>,
     <<"0", "1">>, <<" ", "3">>, <<"-", "1">>, <<"2", ".", "0">>, <<"1", "0">>}

LevelInit ==
    /\ level_in \in [code : LevelCodes, count : 1..MaxFiles]
    /\ web_settings = <<>>
    /\ cli_settings = NotCalled
    /\ HandlerIdle
    /\ MergeIdle
    /\ DatesIdle
    /\ ToolIdle
    /\ BatchesIdle

\* compress reads the level once and hands it to every call of
\* process_single_pdf, which passes the tier to the engine.
WebEngineRun ==
    /\ Len(web_settings) < level_in.count
    /\ web_settings' = Append(web_settings, WebSettings(WebLevel(level_in.code)))
    /\ UNCHANGED <<handler, merge, dates, tool, batches, level_in, cli_settings>>

\* The command line tool is run with (or without) "-l code".
CliEngineRun ==
    /\ ~cli_settings.done
    /\ cli_settings' = CliRun(level_in.code)
    /\ UNCHANGED <<handler, merge, dates, tool, batches, level_in, web_settings>>

LevelNext == WebEngineRun \/ CliEngineRun

LevelSpec == LevelInit /\ [][LevelNext]_vars

\* ------------------------------------------------------------------------
\* The command line tool: one run of compress_pdf
\* ------------------------------------------------------------------------
Txt_compressed == <<"_","c","o","m","p","r","e","s","s","e","d">>
Txt_meta_tmp == <<".","m","e","t","a",".","t","m","p">>

\* base_name, ext = os.path.splitext(input_file);
\* output_file = f"{base_name}_compressed{ext}"
OutputFile(input_file) ==
    LET base_name == SplitextRoot(input_file)
        ext == SubSeq(input_file, Len(base_name) + 1, Len(input_file))
    IN  base_name \o Txt_compressed \o ext

\* temp_file = file_path + ".meta.tmp"
MetaTmp(file_path) == file_path \o Txt_meta_tmp

\* get_ghostscript_command of the tool: the same code as in app.py.
cli_get_ghostscript_command(e) == get_ghostscript_command(e)

\* The metadata options given on the command line.
CliArgSets ==
    {NoArgs, [NoArgs EXCEPT !.title = Txt_T], [NoArgs EXCEPT !.created = Txt_bad]}

\* The runs of the tool: the input file (there or not, empty or not, with
\* or without metadata of its own), the options, the platform.
CliInputs ==
    {[input |-> Txt_a_pdf, present |-> p, size |-> z, info |-> m, args |-> a,
      platform |-> e.platform, which |-> e.which] :
        p \in BOOLEAN, z \in UploadSizes, m \in {EmptyDict, InfoTitled},
        a \in CliArgSets, e \in Environments}

CliInit ==
    /\ cli_in \in CliInputs
    /\ cli_pc = "start"
    /\ cli_disk = IF cli_in.present
                  THEN WriteFile(EmptyDict, cli_in.input, Upload("cli"))
                  ELSE EmptyDict
    /\ cli_new_metadata = EmptyDict
    /\ cli_exit = Running
    /\ HandlerIdle
    /\ MergeIdle
    /\ DatesIdle
    /\ LevelsIdle
    /\ BatchesIdle

others == <<handler, merge, dates, levels, batches, cli_in>>

\* The run ends: sys.exit(status), the end of the script, or a traceback.
CliEnd(status, raised, reported) ==
    /\ cli_exit' = [cli_exit EXCEPT !.status = status, !.raised = raised,
                                    !.reported = reported]
    /\ cli_pc' = "done"
    /\ UNCHANGED <<others, cli_new_metadata>>

CliProceed(next, d) ==
    /\ cli_pc' = next
    /\ cli_disk' = d
    /\ UNCHANGED <<others, cli_new_metadata, cli_exit>>

\* if not os.path.isfile(input_file): print(...); sys.exit(1)
CliCheckInput ==
    /\ cli_pc = "start"
    /\ IF Exists(cli_disk, cli_in.input)
       THEN CliProceed("which", cli_disk)
       ELSE CliEnd(1, FALSE, FALSE) /\ UNCHANGED cli_disk

\* gs_executable = get_ghostscript_command();
\* if not gs_executable: print(...); sys.exit(1)
CliFindEngine ==
    /\ cli_pc = "which"
    /\ IF Truthy(cli_get_ghostscript_command(cli_in))
       THEN CliProceed("engine", cli_disk)
       ELSE CliEnd(1, FALSE, FALSE) /\ UNCHANGED cli_disk

\* subprocess.run(command, check=True); "except subprocess.CalledProcessError"
\* prints the error, and the script ends.
CliRunEngine ==
    /\ cli_pc = "engine"
    /\ LET output_file == OutputFile(cli_in.input)
       IN  \/ CliProceed("gate",
                         WriteFile(cli_disk, output_file,
                                   Compressed("cli", cli_in.info)))
           \/ \E d \in {cli_disk, WriteFile(cli_disk, output_file, Partial("cli"))} :
                CliEnd(0, FALSE, FALSE) /\ cli_disk' = d

\* if any([args.title, args.author, args.subject, args.created,
\* args.modified]): add_metadata(output_file, args)
CliGate ==
    /\ cli_pc = "gate"
    /\ CliProceed(IF CliWantsMetadata(cli_in.args) THEN "meta" ELSE "stats", cli_disk)

\* The except clause of add_metadata, entered with the directory d: print
\* the warning, remove the temporary file if it exists, return.
CliMetaExcept(d) ==
    /\ cli_disk' = RemoveIfExists(d, MetaTmp(OutputFile(cli_in.input)))
    /\ cli_exit' = [cli_exit EXCEPT !.warned = TRUE]
    /\ cli_pc' = "stats"
    /\ UNCHANGED <<others, cli_new_metadata>>

\* add_metadata: reader = PdfReader(file_path) ... writer.add_metadata
CliMergeMetadata ==
    /\ cli_pc = "meta"
    /\ \/ /\ cli_new_metadata' =
                CliNewMetadata(cli_in.args,
                               cli_disk[OutputFile(cli_in.input)].meta)
          /\ cli_pc' = "meta_write"
          /\ UNCHANGED <<others, cli_disk, cli_exit>>
       \/ CliMetaExcept(cli_disk)

\* with open(temp_file, "wb") as f_out: writer.write(f_out)
CliWriteTemp ==
    /\ cli_pc = "meta_write"
    /\ LET temp_file == MetaTmp(OutputFile(cli_in.input))
       IN  \/ CliProceed("meta_move",
                         WriteFile(cli_disk, temp_file,
                                   Rewritten("cli", cli_new_metadata, None)))
           \/ \E d \in {cli_disk, WriteFile(cli_disk, temp_file, PartialRewrite("cli"))} :
                CliMetaExcept(d)

\* shutil.move(temp_file, file_path), as in the web application.
CliSwap ==
    /\ cli_pc = "meta_move"
    /\ LET file_path == OutputFile(cli_in.input)
       IN  IF RenameReplaces(cli_in)
           THEN \/ CliProceed("stats", MoveFile(cli_disk, MetaTmp(file_path), file_path))
                \/ CliMetaExcept(cli_disk)
           ELSE \/ CliProceed("meta_copy",
                              WriteFile(cli_disk, file_path, PartialRewrite("cli")))
                \/ CliMetaExcept(cli_disk)

\* The copy of shutil.move ends (and the source is unlinked), or it fails
\* half way.
CliMoveByCopy ==
    /\ cli_pc = "meta_copy"
    /\ LET file_path == OutputFile(cli_in.input)
       IN  \/ CliProceed("stats", MoveFile(cli_disk, MetaTmp(file_path), file_path))
           \/ CliMetaExcept(cli_disk)

\* original_size = os.path.getsize(input_file); new_size = ...;
\* ratio = (1 - (new_size / original_size)) * 100; the three prints.
\* ZeroDivisionError is not a CalledProcessError: nothing catches it.
CliStats ==
    /\ cli_pc = "stats"
    /\ \E new_size \in OutputSizes :
         LET original_size == cli_in.size
         IN  IF ReductionDefined(new_size, original_size)
             THEN CliEnd(0, FALSE, TRUE)
             ELSE CliEnd(1, TRUE, FALSE)
    /\ UNCHANGED cli_disk

CliNext ==
    \/ CliCheckInput \/ CliFindEngine \/ CliRunEngine \/ CliGate
    \/ CliMergeMetadata \/ CliWriteTemp \/ CliSwap \/ CliMoveByCopy \/ CliStats

\* One run of "compress_pdf.py input [options]".
CliSpec == CliInit /\ [][CliNext]_vars

\* ------------------------------------------------------------------------
\* Requests served at the same time, sharing temp_uploads
\* ------------------------------------------------------------------------
\* Files of one request of the concurrent requests.
MaxUploads == 2

\* A declared filename with directory parts: FileStorage.filename is the
\* name as the client sent it.
Txt_x_up_a_pdf == <<"x","/",".",".","/","a",".","p","d","f">>
ConcNames == {Txt_a_pdf, Txt_x_up_a_pdf}

\* The parts of a path between its separators.
RECURSIVE SplitPath(_)
SplitPath(p) ==
    IF \A n \in 1..Len(p) : p[n] # "/"
    THEN <<p>>
    ELSE LET n == CHOOSE n \in 1..Len(p) :
                      p[n] = "/" /\ \A m \in 1..(n - 1) : p[m] # "/"
         IN  <<SubSeq(p, 1, n - 1)>> \o SplitPath(SubSeq(p, n + 1, Len(p)))

RECURSIVE JoinPath(_)
JoinPath(parts) ==
    IF parts = <<>> THEN <<>>
    ELSE IF Len(parts) = 1 THEN parts[1]
    ELSE parts[1] \o <<"/">> \o JoinPath(Tail(parts))

\* Windows normalizes a path before it opens it: a ".." part removes the
\* part before it, whether or not that part exists.
RECURSIVE Collapse(_, _)
Collapse(parts, stack) ==
    IF parts = <<>> THEN stack
    ELSE LET h == Head(parts)
         IN  IF h = <<".", ".">>
             THEN Collapse(Tail(parts),
                           IF stack = <<>> THEN <<>>
                           ELSE SubSeq(stack, 1, Len(stack) - 1))
             ELSE IF h = <<".">> \/ h = <<>>
             THEN Collapse(Tail(parts), stack)
             ELSE Collapse(Tail(parts), Append(stack, h))

NtPath(path) == JoinPath(Collapse(SplitPath(path), <<>>))

\* The file that open(path), os.path.exists(path), os.remove(path) and the
\* engine reach on the platform e, or None when a directory on the way does
\* not exist. POSIX walks the path part by part; temp_uploads is the only
\* directory there is.
Resolve(e, path) ==
    LET q == IF e.platform = "win32" THEN NtPath(path) ELSE path
        parts == SplitPath(q)
    IN  IF Len(parts) = 2 /\ parts[1] = <<"temp_uploads">> THEN q ELSE None

Requests == {1, 2}

NewThread == [pc |-> "start", i |-> 1, unique_id |-> "", filename |-> <<>>,
              input_path |-> <<>>, output_path |-> <<>>,
              processed_files |-> <<>>, previews |-> None, k |-> 1,
              file_data |-> {}, status |-> 0]

\* Two requests arrive: the first uploads one or two files, the second one.
ConcInit ==
    /\ batch_files \in
         {<<f, g>> : f \in UNION {[1..n -> ConcNames] : n \in 1..MaxUploads},
                     g \in [1..1 -> ConcNames]}
    /\ batch_env \in Environments
    /\ threads = [r \in Requests |-> NewThread]
    /\ shared_disk = EmptyDict
    /\ drawn = 0
    /\ HandlerIdle
    /\ MergeIdle
    /\ DatesIdle
    /\ LevelsIdle
    /\ ToolIdle

outside == <<handler, merge, dates, levels, tool, batch_files, batch_env>>

\* The thread of request r goes on with the locals t and the directory d.
Go(r, t, d) ==
    /\ threads' = [threads EXCEPT ![r] = t]
    /\ shared_disk' = d
    /\ UNCHANGED <<outside, drawn>>

\* The path the platform reaches.
At(path) == Resolve(batch_env, path)
Readable(d, path) ==
    /\ path # None
    /\ Exists(d, path)
    /\ d[path].kind \in {"upload", "compressed", "rewritten"}

\* The except clause of process_single_pdf, entered by the thread of r with
\* the directory d: remove the input if it exists, return None, None, None.
Raise(r, d) ==
    LET t == threads[r]
    IN  Go(r, [t EXCEPT !.pc = "loop", !.i = t.i + 1],
           RemoveIfExists(d, At(t.input_path)))

\* compress: the checks on the request.
ThAccept(r) ==
    LET t == threads[r]
        files_r == batch_files[r]
    IN  /\ t.pc = "start"
        /\ IF files_r = <<>> \/ files_r[1] = <<>>
           THEN Go(r, [t EXCEPT !.pc = "done", !.status = 400], shared_disk)
           ELSE Go(r, [t EXCEPT !.pc = "loop"], shared_disk)

\* The loop of compress reaches a file: it is skipped, or process_single_pdf
\* starts: unique_id = str(uuid.uuid4()), never a value returned before.
ThBeginFile(r) ==
    LET t == threads[r]
        files_r == batch_files[r]
    IN  /\ t.pc = "loop"
        /\ t.i <= Len(files_r)
        /\ drawn < Len(Uuids)
        /\ IF ~IsPdfName(files_r[t.i])
           THEN Go(r, [t EXCEPT !.i = t.i + 1], shared_disk)
           ELSE LET unique_id == Uuids[drawn + 1]
                    name == files_r[t.i]
                IN  /\ threads' =
                         [threads EXCEPT ![r] =
                            [t EXCEPT !.pc = "save",
                                      !.unique_id = unique_id,
                                      !.filename = name,
                                      !.input_path = InputPath(unique_id, name),
                                      !.output_path = OutputPath(unique_id, name)]]
                    /\ drawn' = drawn + 1
                    /\ UNCHANGED <<outside, shared_disk>>

\* file_storage.save(input_path)
ThSave(r) ==
    LET t == threads[r]
        path == At(t.input_path)
    IN  /\ t.pc = "save"
        /\ IF path = None
           THEN Raise(r, shared_disk)
           ELSE \/ Go(r, [t EXCEPT !.pc = "which"],
                      WriteFile(shared_disk, path, Upload(t.unique_id)))
                \/ Raise(r, WriteFile(shared_disk, path, Partial(t.unique_id)))

\* gs_executable = get_ghostscript_command(); if not gs_executable: raise
ThFindEngine(r) ==
    LET t == threads[r]
    IN  /\ t.pc = "which"
        /\ IF Truthy(get_ghostscript_command(batch_env))
           THEN Go(r, [t EXCEPT !.pc = "engine"], shared_disk)
           ELSE Raise(r, shared_disk)

\* subprocess.run(command, check=True): the engine reads the input path and
\* writes the output path.
ThRunEngine(r) ==
    LET t == threads[r]
        in == At(t.input_path)
        out == At(t.output_path)
    IN  /\ t.pc = "engine"
        /\ IF ~Readable(shared_disk, in) \/ out = None
           THEN Raise(r, shared_disk)
           ELSE LET doc == shared_disk[in].doc
                IN  \/ Go(r, [t EXCEPT !.pc = "rewrite"],
                          WriteFile(shared_disk, out, Compressed(doc, EmptyDict)))
                    \/ Raise(r, WriteFile(shared_disk, out, Partial(doc)))

\* reader = PdfReader(output_path) ... writer.write(f) to output_path + ".final"
ThRewrite(r) ==
    LET t == threads[r]
        out == At(t.output_path)
        temp_meta == At(TempMeta(t.output_path))
    IN  /\ t.pc = "rewrite"
        /\ IF ~Readable(shared_disk, out) \/ temp_meta = None
           THEN Raise(r, shared_disk)
           ELSE LET doc == shared_disk[out].doc
                IN  \/ Go(r, [t EXCEPT !.pc = "move"],
                          WriteFile(shared_disk, temp_meta,
                                    Rewritten(doc, EmptyDict, None)))
                    \/ Raise(r, WriteFile(shared_disk, temp_meta,
                                          PartialRewrite(doc)))

\* shutil.move(temp_meta, output_path)
ThSwap(r) ==
    LET t == threads[r]
        out == At(t.output_path)
        temp_meta == At(TempMeta(t.output_path))
    IN  /\ t.pc = "move"
        /\ IF ~Exists(shared_disk, temp_meta)
           THEN Raise(r, shared_disk)
           ELSE IF RenameReplaces(batch_env)
           THEN \/ Go(r, [t EXCEPT !.pc = "stats"],
                      MoveFile(shared_disk, temp_meta, out))
                \/ Raise(r, shared_disk)
           ELSE \/ Go(r, [t EXCEPT !.pc = "copy"],
                      WriteFile(shared_disk, out,
                                PartialRewrite(shared_disk[temp_meta].doc)))
                \/ Raise(r, shared_disk)

ThMoveByCopy(r) ==
    LET t == threads[r]
        out == At(t.output_path)
        temp_meta == At(TempMeta(t.output_path))
    IN  /\ t.pc = "copy"
        /\ IF ~Exists(shared_disk, temp_meta)
           THEN Raise(r, shared_disk)
           ELSE \/ Go(r, [t EXCEPT !.pc = "stats"],
                      MoveFile(shared_disk, temp_meta, out))
                \/ Raise(r, shared_disk)

\* new_size, reduction, the log line, the return; in compress:
\* processed_files.append((in_p, out_p, name))
ThStats(r) ==
    LET t == threads[r]
    IN  /\ t.pc = "stats"
        /\ \E original_size \in UploadSizes, new_size \in OutputSizes :
             IF ReductionDefined(new_size, original_size)
             THEN Go(r, [t EXCEPT
                           !.pc = IF t.previews = None THEN "preview" ELSE "loop",
                           !.i = t.i + 1,
                           !.processed_files =
                               Append(t.processed_files,
                                      <<t.input_path, t.output_path, t.filename>>)],
                     shared_disk)
             ELSE Raise(r, shared_disk)

\* if previews is None: generate_preview_base64(in_p), (out_p); the previews
\* are kept if both were made.
ThPreview(r) ==
    LET t == threads[r]
        in == At(t.input_path)
        out == At(t.output_path)
    IN  /\ t.pc = "preview"
        /\ Go(r, [t EXCEPT
                    !.pc = "loop",
                    !.previews =
                        IF Readable(shared_disk, in) /\ Readable(shared_disk, out)
                        THEN <<shared_disk[in].doc, shared_disk[out].doc>>
                        ELSE None],
              shared_disk)

\* if not processed_files: return ..., 500
ThAfterLoop(r) ==
    LET t == threads[r]
    IN  /\ t.pc = "loop"
        /\ t.i > Len(batch_files[r])
        /\ IF t.processed_files = <<>>
           THEN Go(r, [t EXCEPT !.pc = "done", !.status = 500], shared_disk)
           ELSE Go(r, [t EXCEPT !.pc = "assemble", !.k = 1], shared_disk)

\* open(output_path, "rb") / zipf.write(output_path, download_name): one
\* output is read. A missing file is an exception nothing handles.
ThAssemble(r) ==
    LET t == threads[r]
        out == At(t.processed_files[t.k][2])
    IN  /\ t.pc = "assemble"
        /\ IF out # None /\ Exists(shared_disk, out)
           THEN Go(r, [t EXCEPT
                         !.file_data = t.file_data \cup {shared_disk[out].doc},
                         !.k = IF t.k = Len(t.processed_files) THEN 1 ELSE t.k + 1,
                         !.pc = IF t.k = Len(t.processed_files)
                                THEN "cleanup" ELSE "assemble"],
                   shared_disk)
           ELSE Go(r, [t EXCEPT !.pc = "done", !.status = 500], shared_disk)

\* for in_p, out_p, _ in processed_files: remove both if they exist
ThCleanup(r) ==
    LET t == threads[r]
        e == t.processed_files[t.k]
    IN  /\ t.pc = "cleanup"
        /\ Go(r, [t EXCEPT
                    !.k = t.k + 1,
                    !.pc = IF t.k = Len(t.processed_files) THEN "done" ELSE "cleanup",
                    !.status = IF t.k = Len(t.processed_files) THEN 200 ELSE 0],
              RemoveIfExists(RemoveIfExists(shared_disk, At(e[1])), At(e[2])))

ConcNext ==
    \E r \in Requests :
        \/ ThAccept(r) \/ ThBeginFile(r) \/ ThSave(r) \/ ThFindEngine(r)
        \/ ThRunEngine(r) \/ ThRewrite(r) \/ ThSwap(r) \/ ThMoveByCopy(r)
        \/ ThStats(r) \/ ThPreview(r) \/ ThAfterLoop(r) \/ ThAssemble(r)
        \/ ThCleanup(r)

\* Two requests served by two threads of one server.
ConcSpec == ConcInit /\ [][ConcNext]_vars

\* ------------------------------------------------------------------------
\* Properties of the web handler
\* ------------------------------------------------------------------------
Failed(n) == outcome[n].status = "failed"
Done(n) == outcome[n].status = "done"
Skipped(n) == outcome[n].status = "skipped"

\* The files process_single_pdf was called for, and those that succeeded.
AttemptedSet == {n \in 1..Len(outcome) : ~Skipped(n)}
DoneSet == {n \in 1..Len(outcome) : Done(n)}
FailedSet == {n \in 1..Len(outcome) : Failed(n)}
Succeeded == Cardinality(DoneSet)

\* The successful files, in the order they were submitted.
IsDone(o) == o.status = "done"
DoneSeq == SelectSeq(outcome, IsDone)

\* The temporary artifacts process_single_pdf creates for a file.
ArtifactsOf(o) == {o.input_path, o.output_path, TempMeta(o.output_path)}

\* compress returned a response (it did not end by an exception).
Returned == pc = "done" /\ ~response.raised
ReturnedError == Returned /\ response.status \in {400, 500}
ReturnedSuccess == Returned /\ response.status = 200

AllPdf == \A n \in 1..Len(files) : IsPdfName(files[n].filename)

\* C1: once compress has ended, the working directory holds none of the
\* artifacts (input, output, ".final" file) of any file it attempted.
C1_NoArtifactRemains ==
    pc = "done" =>
        \A n \in AttemptedSet : ArtifactsOf(outcome[n]) \cap DOMAIN disk = {}

\* C2: an error of process_single_pdf never leaves it: an exception reaches
\* compress only from the assembly, after the loop; once the loop is over
\* every submitted file has its outcome, every file with the .pdf extension
\* was attempted whatever happened to the files before it, and every file
\* that reached Done is in processed_files, in order.
C2_ErrorIsolation ==
    /\ response.raised => (i > Len(files) /\ processed_files # <<>>)
    /\ \A n \in 1..Len(outcome) :
         /\ outcome[n].filename = files[n].filename
         /\ Skipped(n) <=> ~IsPdfName(files[n].filename)
    /\ (pc \in {"zip", "cleanup"} \/ (pc = "done" /\ response.status # 400))
          => Len(outcome) = Len(files)
    /\ pc \notin {"collect"} =>
         /\ Len(processed_files) = Len(DoneSeq)
         /\ \A j \in 1..Len(DoneSeq) : processed_files[j] = DoneSeq[j].result

\* C2, its case: the first file failed, a later one succeeded and was
\* delivered.
C2_Witness ==
    /\ ReturnedSuccess
    /\ Len(outcome) >= 2
    /\ Failed(1)
    /\ \E n \in 2..Len(outcome) : Done(n)

\* C3: a delivered output is the raw file, under the original filename of
\* the one successful file, exactly when one file succeeded, and the archive
\* documents_optimises.zip exactly when two or more succeeded.
C3_OutputShape ==
    /\ pc \in {"zip", "cleanup"} =>
         ((final_file_name = Txt_zip_name) <=> Succeeded >= 2)
    /\ ReturnedSuccess =>
         /\ ~response.file_data.zip <=> Succeeded = 1
         /\ response.file_data.zip <=> Succeeded >= 2
         /\ ~response.file_data.zip => response.file_name = DoneSeq[1].filename
         /\ response.file_data.zip => response.file_name = Txt_zip_name

\* C3, its case: several files submitted, one succeeded, a raw file delivered.
C3_Witness ==
    /\ ReturnedSuccess
    /\ Len(files) = 3
    /\ Succeeded = 1
    /\ ~response.file_data.zip
    /\ response.file_name = Txt_B_PDF

\* The delivered archive has one entry per successful file, under its
\* original filename, holding that file's output.
ArchiveOfSuccesses ==
    /\ response.file_data.zip
    /\ Len(response.file_data.entries) = Len(DoneSeq)
    /\ \A j \in 1..Len(DoneSeq) :
         /\ response.file_data.entries[j].name = DoneSeq[j].filename
         /\ response.file_data.entries[j].content.doc = DoneSeq[j].uid

OneFailedOthersDone ==
    /\ AllPdf
    /\ Cardinality(FailedSet) = 1
    /\ Succeeded = Len(files) - 1

\* C4 as stated: N >= 2 files with the .pdf extension, one fails, the others
\* succeed: the delivered output is the archive of the N-1 successes.
C4_ArchiveFromTwoFiles ==
    (ReturnedSuccess /\ Len(files) >= 2 /\ OneFailedOthersDone)
        => ArchiveOfSuccesses

\* C4, amended: the same for N >= 3 (with N = 2 one file succeeded, and the
\* output is that file, raw).
C4_ArchiveFromThreeFiles ==
    (ReturnedSuccess /\ Len(files) >= 3 /\ OneFailedOthersDone)
        => /\ ArchiveOfSuccesses
           /\ Len(response.file_data.entries) = Len(files) - 1

\* C4, its case: three files, the second failed, an archive of two entries.
C4_Witness ==
    /\ ReturnedSuccess
    /\ Len(files) = 3
    /\ OneFailedOthersDone
    /\ Failed(2)
    /\ Len(response.file_data.entries) = 2

\* C5: compress returns an error response, without file data, exactly when
\* no file completed successfully; with a success it returns the download.
C5_BatchEmpty ==
    Returned =>
        /\ ReturnedError <=> Succeeded = 0
        /\ ReturnedSuccess <=> Succeeded >= 1
        /\ ReturnedError => response.file_data = <<>> /\ response.file_name = None
        /\ (response.status = 500) <=> (Succeeded = 0 /\ Len(outcome) = Len(files)
                                          /\ files # <<>>)

\* C5, its case: a batch of one file whose processing failed.
C5_Witness ==
    /\ ReturnedError
    /\ response.status = 500
    /\ Len(files) = 1
    /\ Failed(1)

\* The filename stems the inputs are expected to give.
ExpectedStem(filename) ==
    CASE filename = Txt_a_pdf -> <<"a">>
      [] filename = Txt_B_PDF -> <<"B">>
      [] filename = Txt_Report_Final_pdf ->
            <<"R","e","p","o","r","t"," ","F","i","n","a","l">>
      [] filename = Txt_a_b_pdf -> <<"a",".","b">>
      [] filename = Txt_dot_pdf -> Txt_dot_pdf

\* C6: a file whose save, compression and metadata rewrite succeeded reaches
\* Done: no failed file has a rewritten document at its output path; when
\* process_single_pdf returns a result both its artifacts are on disk; and
\* two files with the .pdf extension that both succeed, with empty title and
\* no password, give an archive of two entries under the original names,
\* each titled with its filename stem.
C6_SuccessPath ==
    /\ \A n \in FailedSet :
         ~(/\ Exists(disk, outcome[n].output_path)
           /\ disk[outcome[n].output_path].kind = "rewritten")
    /\ (pc = "collect" /\ ret # FailedResult) =>
         /\ Exists(disk, ret[1]) /\ disk[ret[1]].kind = "upload"
         /\ Exists(disk, ret[2]) /\ disk[ret[2]].kind = "rewritten"
         /\ ret[3] = files[i].filename
    /\ (/\ ReturnedSuccess /\ Len(files) = 2 /\ AllPdf /\ FailedSet = {}
        /\ ~Truthy(metadata_form.title) /\ ~Truthy(metadata_form.password))
         => /\ ArchiveOfSuccesses
            /\ \A j \in 1..2 :
                 LET e == response.file_data.entries[j]
                 IN  /\ e.name = files[j].filename
                     /\ DictGet(e.content.meta, "/Title") = ExpectedStem(e.name)

\* Number of times os.remove was called on a path.
TimesRemoved(path) == Cardinality({n \in 1..Len(removed) : removed[n] = path})

\* C7: when the assembly of the output raised, the cleanup still ran: the
\* input and the output artifact of every successful file are gone, each
\* removed exactly once.
C7_CleanupAfterAssemblyFailure ==
    (pc = "done" /\ response.raised) =>
        \A n \in DoneSet :
            /\ ~Exists(disk, outcome[n].input_path)
            /\ ~Exists(disk, outcome[n].output_path)
            /\ TimesRemoved(outcome[n].input_path) = 1
            /\ TimesRemoved(outcome[n].output_path) = 1

WorkingNames ==
    UNION {{Basename(outcome[n].input_path), Basename(outcome[n].output_path)} :
             n \in AttemptedSet}

\* The entries j of a sequence of zip entries are the successful files, in
\* the order of submission, under their declared filenames.
EntriesAreSuccesses(entries) ==
    /\ Len(entries) <= Len(DoneSeq)
    /\ \A j \in 1..Len(entries) :
         /\ entries[j].name = DoneSeq[j].filename
         /\ entries[j].content.doc = DoneSeq[j].uid
         /\ entries[j].name \notin WorkingNames
         /\ entries[j].name[1] \notin {Uuids[n] : n \in 1..Len(Uuids)}

\* C8: the names written to the archive are the declared filenames of the
\* successful files, in input order; none is a working name; skipped and
\* failed files have no entry.
C8_ArchiveNamesInOrder ==
    /\ \A n \in 1..Len(outcome) : outcome[n].filename = files[n].filename
    /\ EntriesAreSuccesses(archive)
    /\ (ReturnedSuccess /\ response.file_data.zip) =>
         /\ EntriesAreSuccesses(response.file_data.entries)
         /\ Len(response.file_data.entries) = Len(DoneSeq)

\* C8, its case: B.PDF, then a file that is skipped or fails, then a.pdf.
C8_Witness ==
    /\ ReturnedSuccess
    /\ response.file_data.zip
    /\ Len(files) = 3
    /\ ~Done(2)
    /\ Len(response.file_data.entries) = 2
    /\ response.file_data.entries[1].name = Txt_B_PDF
    /\ response.file_data.entries[2].name = Txt_a_pdf

OverrideFor(key) ==
    CASE key = "/Title" -> m_in.title
      [] key = "/Author" -> m_in.author
      [] key = "/Subject" -> m_in.subject
      [] key = "/CreationDate" -> m_in.created
      [] key = "/ModDate" -> m_in.modified

IsDateKey(key) == key \in {"/CreationDate", "/ModDate"}

\* The override replaces the value: it is non-empty and, for a date, the
\* normalizer of the pipeline gives a value for it.
WebReplaces(key) ==
    /\ Truthy(OverrideFor(key))
    /\ IsDateKey(key) => format_date_for_pdf(OverrideFor(key)) # None
CliReplaces(key) ==
    /\ Truthy(OverrideFor(key))
    /\ IsDateKey(key) => cli_format_date_for_pdf(OverrideFor(key)) # None

\* C10: the merge never loses an existing value: a key the document carries
\* keeps its value unless the override replaces it; in particular an
\* existing title is kept when the title override is empty.
C10_MergeKeepsExisting ==
    /\ m_web.done =>
         \A key \in MetaKeys \cap DOMAIN m_in.existing :
            ~WebReplaces(key) => DictGet(m_web.meta, key) = m_in.existing[key]
    /\ m_cli.done =>
         \A key \in MetaKeys \cap DOMAIN m_in.existing :
            ~CliReplaces(key) => DictGet(m_cli.meta, key) = m_in.existing[key]

\* The declared name ends in ".pdf", whatever the case of its letters.
HasPdfExtension(filename) ==
    LET n == Len(filename)
    IN  /\ n >= 4
        /\ filename[n - 3] = "."
        /\ filename[n - 2] \in {"p", "P"}
        /\ filename[n - 1] \in {"d", "D"}
        /\ filename[n] \in {"f", "F"}

\* The paths the working directory holds or held.
PathsTouched == DOMAIN disk \cup {removed[n] : n \in 1..Len(removed)}

\* The loop of compress is over.
LoopOver == pc \in {"zip", "cleanup"} \/ (pc = "done" /\ response.status # 400)

\* C12: a file is skipped exactly when its declared name does not end in
\* ".pdf" in any letter case; a skipped file returns nothing, is no failure
\* and leaves no artifact under its name; every file named ".pdf" in any
\* case is attempted; and the batch fails exactly when no file succeeded,
\* skipped files or not.
C12_ExtensionFilter ==
    /\ \A n \in 1..Len(outcome) :
          /\ outcome[n].filename = files[n].filename
          /\ Skipped(n) <=> ~HasPdfExtension(files[n].filename)
          /\ Skipped(n) =>
                /\ outcome[n].result = NoRet
                /\ \A path \in PathsTouched :
                      /\ ~EndsWith(path, files[n].filename)
                      /\ ~EndsWith(path, files[n].filename \o Txt_final)
    /\ LoopOver => Len(outcome) = Len(files)
    /\ Returned /\ response.status = 500 => DoneSet = {}
    /\ ReturnedSuccess => DoneSet # {} /\ Len(processed_files) = Succeeded

\* A batch with a skipped file before an upper-case ".PDF" that succeeded.
C12_Witness ==
    /\ ReturnedSuccess
    /\ \E n, m \in 1..Len(outcome) :
          /\ n < m
          /\ Skipped(n)
          /\ Done(m) /\ files[m].filename = Txt_B_PDF

\* The encryption the rewritten document must carry.
ExpectedEnc ==
    IF Truthy(metadata_form.password) THEN metadata_form.password ELSE None

HoldsKind(path, kind) == Exists(disk, path) /\ disk[path].kind = kind

\* C15: the steps of process_single_pdf occur in the order saved ->
\* compressed -> metadata applied -> (encrypted) -> swapped -> done: the
\* rewrite only runs on a compressed output, the temporary file is encrypted
\* exactly when a password was given and before it is swapped in, a file is
\* done only with the rewritten document at its output path, and a file
\* that is not done is failed.
C15_StepOrder ==
    /\ pc = "save" =>
          ~Exists(disk, cur.input_path) /\ ~Exists(disk, cur.output_path)
    /\ pc \in {"size", "which", "engine"} =>
          /\ HoldsKind(cur.input_path, "upload")
          /\ ~Exists(disk, cur.output_path)
    /\ pc \in {"merge", "encrypt", "write", "swap"} =>
          /\ HoldsKind(cur.input_path, "upload")
          /\ HoldsKind(cur.output_path, "compressed")
    /\ pc \in {"size", "which", "engine", "merge", "encrypt", "write", "report"} =>
          ~Exists(disk, TempMeta(cur.output_path))
    /\ pc = "encrypt" => Truthy(metadata_form.password)
    /\ pc = "write" => cur.password = ExpectedEnc
    /\ pc \in {"swap", "copy"} =>
          /\ HoldsKind(TempMeta(cur.output_path), "rewritten")
          /\ disk[TempMeta(cur.output_path)].enc = ExpectedEnc
    /\ pc = "report" =>
          /\ HoldsKind(cur.output_path, "rewritten")
          /\ disk[cur.output_path].enc = ExpectedEnc
    /\ \A n \in 1..Len(outcome) :
          /\ Done(n) /\ pc \notin {"cleanup", "done"} =>
                /\ HoldsKind(outcome[n].output_path, "rewritten")
                /\ disk[outcome[n].output_path].enc = ExpectedEnc
                /\ HoldsKind(outcome[n].input_path, "upload")
          /\ n \in AttemptedSet => Done(n) \/ Failed(n)

\* A file is done in a batch with a password: its output is encrypted.
C15_Witness ==
    /\ pc = "collect"
    /\ Truthy(metadata_form.password)
    /\ \E n \in 1..Len(outcome) :
          /\ Done(n)
          /\ HoldsKind(outcome[n].output_path, "rewritten")
          /\ disk[outcome[n].output_path].enc = metadata_form.password

\* C16: while a file is processed its output path is absent or holds the
\* complete compressed output or the complete rewritten document; a partly
\* written rewrite exists at the temporary ".final" path only; and a file
\* that failed while the temporary file was written has its output path as
\* the engine left it.
C16_AtomicReplace ==
    /\ cur # NoCur =>
          \/ ~Exists(disk, cur.output_path)
          \/ disk[cur.output_path].kind \in {"compressed", "rewritten"}
    /\ \A path \in DOMAIN disk :
          disk[path].kind = "partial_rewrite" => EndsWith(path, Txt_final)
    /\ \A n \in 1..Len(outcome) :
          Failed(n) /\ HoldsKind(TempMeta(outcome[n].output_path), "partial_rewrite")
             => HoldsKind(outcome[n].output_path, "compressed")

\* A result of process_single_pdf: the three components present, or none.
AllPresent(r) == Len(r) = 3 /\ \A n \in 1..3 : Truthy(r[n])
AllAbsent(r) == Len(r) = 3 /\ \A n \in 1..3 : r[n] = None

\* process_single_pdf is running.
InFile == pc \in {"save", "size", "which", "engine", "merge", "encrypt", "write",
                  "swap", "copy", "report"}

\* C17: a failed file has no input artifact left from the moment the
\* function returns, its result is the failed marker (three absent
\* components), a result never mixes present and absent components, and
\* each attempted file has exactly one result.
C17_FailedResult ==
    /\ \A n \in 1..Len(outcome) :
          /\ Failed(n) =>
                /\ ~Exists(disk, outcome[n].input_path)
                /\ AllAbsent(outcome[n].result)
          /\ Done(n) => AllPresent(outcome[n].result)
    /\ pc = "collect" =>
          /\ AllAbsent(ret) \/ AllPresent(ret)
          /\ ret = outcome[Len(outcome)].result
          /\ Len(outcome) = i
    /\ pc = "loop" \/ InFile => Len(outcome) = i - 1
    /\ LoopOver => Len(outcome) = Len(files) /\ i = Len(files) + 1
    /\ Len(processed_files) = Succeeded - (IF pc = "collect" /\ AllPresent(ret) THEN 1 ELSE 0)

\* A file failed after its input was saved, and the next file was handled.
C17_Witness ==
    /\ Len(outcome) >= 2
    /\ Failed(1)
    /\ \E n \in 1..Len(removed) : removed[n] = outcome[1].input_path
    /\ ~Exists(disk, outcome[1].input_path)

\* The bytes of the n-th file's output are in the bundle.
InBundle(data, n) ==
    \E j \in 1..Len(data.entries) :
        /\ data.entries[j].content.kind = "rewritten"
        /\ data.entries[j].content.doc = outcome[n].uid

\* An artifact of the n-th file has been deleted.
ArtifactDeleted(n) ==
    \/ ~Exists(disk, outcome[n].input_path)
    \/ ~Exists(disk, outcome[n].output_path)
    \/ \E j \in 1..Len(removed) :
          removed[j] \in {outcome[n].input_path, outcome[n].output_path}

\* C18: the assembly of the output starts only when every submitted file
\* is skipped, done or failed, and an artifact of a successful file is
\* deleted only in the cleanup that follows the assembly, when the bundle
\* holds the bytes of that file's output (the previews are made in the
\* loop, before the assembly).
C18_AssemblyThenCleanup ==
    /\ pc \in {"zip", "cleanup"} \/ archive # <<>> =>
          /\ Len(outcome) = Len(files)
          /\ i = Len(files) + 1
          /\ cur = NoCur
    /\ \A n \in 1..Len(outcome) :
          Done(n) /\ ArtifactDeleted(n) =>
             \/ pc = "cleanup" /\ InBundle(final_file_data, n)
             \/ ReturnedSuccess /\ InBundle(response.file_data, n)
    /\ pc = "cleanup" =>
          \A n \in 1..Len(outcome) : Done(n) => InBundle(final_file_data, n)

\* The cleanup has deleted the artifacts of two files held by an archive.
C18_Witness ==
    /\ ReturnedSuccess
    /\ response.file_data.zip
    /\ \E n, m \in 1..Len(outcome) :
          /\ n < m
          /\ Done(n) /\ Done(m)
          /\ ArtifactDeleted(n) /\ ArtifactDeleted(m)

\* The compression engine cannot be resolved on the search path.
EngineNotFound == get_ghostscript_command(env) = None

\* The files process_single_pdf has been called for so far.
CallsSoFar == Cardinality(AttemptedSet) + (IF cur = NoCur THEN 0 ELSE 1)

\* C13: when the engine cannot be resolved no file succeeds, the batch ends
\* in an error, and the condition stops the batch: once a file has failed
\* on it, no sibling file is attempted.
C13_EngineNotFoundFatal ==
    EngineNotFound =>
        /\ DoneSet = {}
        /\ Returned => ReturnedError
        /\ CallsSoFar <= 1

\* ------------------------------------------------------------------------
\* Properties of the date conversion
\* ------------------------------------------------------------------------
IsDigit(c) == c \in D09
OnlyDigits(s) == SelectSeq(s, IsDigit)
ZeroFill(s) == s \o [n \in 1..(14 - Len(s)) |-> "0"]

\* "D:" and the digits of the text entered, in order, completed by zeros.
ExpectedDate(in) == <<"D", ":">> \o ZeroFill(OnlyDigits(in.text))

\* The shapes of the texts entered.
CalendarDates == {Txt_2024_01_05, Txt_1999_12_31}
DateOnly(in) == in.date \in CalendarDates /\ in.time = <<>>
WithHM(in) == in.date \in CalendarDates /\ in.time = Txt_Time_10_30
WithHMS(in) == in.date \in CalendarDates /\ in.time = Txt_Time_10_30 \o Txt_Sec_45
NoDate(in) == ~Truthy(in.text) \/ in.date = Txt_bad
\* A day, month or hour that does not exist.
Impossible(in) ==
    in.date \in {Txt_2023_02_29, Txt_2024_13_01} \/ in.time = Txt_Time_25_00

IsPdfDate(v) == Len(v) = 16 /\ v[1] = "D" /\ v[2] = ":" /\ \A n \in 3..16 : v[n] \in D09

\* C11 as stated: both conversions turn YYYY-MM-DD, YYYY-MM-DD HH:MM and
\* YYYY-MM-DD HH:MM:SS, with a space or a T, into D: and the 14 digits, and
\* give None for no text and for a text that is no date.
C11_EveryShapeBothVariants ==
    \A r \in {date_web, date_cli} :
        r.done =>
            /\ ~r.raised
            /\ (DateOnly(date_in) \/ WithHM(date_in) \/ WithHMS(date_in))
                   => r.value = ExpectedDate(date_in)
            /\ NoDate(date_in) => r.value = None

\* C11 as the code has it: the web conversion takes YYYY-MM-DD and
\* YYYY-MM-DD HH:MM (space or T) and gives None with seconds; the command
\* line conversion takes YYYY-MM-DD and YYYY-MM-DD HH:MM:SS (space only) and
\* gives None without seconds or with a T; both give None for no text, for a
\* text that is no date and for a date or hour that does not exist; a result
\* other than None is always D: and 14 digits.
C11_ShapesPerVariant ==
    /\ date_web.done =>
          /\ ~date_web.raised
          /\ (DateOnly(date_in) \/ WithHM(date_in))
                 => date_web.value = ExpectedDate(date_in)
          /\ WithHMS(date_in) => date_web.value = None
          /\ (NoDate(date_in) \/ Impossible(date_in)) => date_web.value = None
          /\ date_web.value # None => IsPdfDate(date_web.value)
    /\ date_cli.done =>
          /\ ~date_cli.raised
          /\ (DateOnly(date_in) \/ (WithHMS(date_in) /\ date_in.sep = <<" ">>))
                 => date_cli.value = ExpectedDate(date_in)
          /\ (WithHM(date_in) \/ date_in.sep = <<"T">>) => date_cli.value = None
          /\ (NoDate(date_in) \/ Impossible(date_in)) => date_cli.value = None
          /\ date_cli.value # None => IsPdfDate(date_cli.value)

\* A date with HH:MM after a T went through both conversions.
C11_Witness ==
    /\ date_web.done /\ date_cli.done
    /\ WithHM(date_in) /\ date_in.sep = <<"T">>
    /\ date_web.value = ExpectedDate(date_in)
    /\ date_cli.value = None

\* ------------------------------------------------------------------------
\* Properties of the compression level
\* ------------------------------------------------------------------------
\* The tier of a code: 0..4 in this order, /printer for no code and for
\* every other code.
TierOf(code) ==
    CASE code = <<"0">> -> "/default"
      [] code = <<"1">> -> "/prepress"
      [] code = <<"2">> -> "/printer"
      [] code = <<"3">> -> "/ebook"
      [] code = <<"4">> -> "/screen"
      [] OTHER -> "/printer"

\* Codes that int() reads as one of 0..4 although they are written otherwise.
ReadAs(code) ==
    CASE code = <<"0", "1">> -> <<"1">>
      [] code = <<" ", "3">> -> <<"3">>
      [] OTHER -> code

\* Codes the argument parser of the tool refuses.
RefusedCodes == {<<"5">>, <<>>, <<"x">>, <<"-", "1">>, <<"2", ".", "0">>, <<"1", "0">>}

\* C14 as stated: in both pipelines every engine run gets the tier of the
\* code (0..4 in order, /printer for no code and any other code), the same
\* for every file of the batch.
C14_LevelMapping ==
    /\ \A n \in 1..Len(web_settings) : web_settings[n] = TierOf(level_in.code)
    /\ cli_settings.done =>
          ~cli_settings.raised /\ cli_settings.value = TierOf(level_in.code)

\* C14 as the code has it: the web pipeline passes the tier of the code to
\* every engine run of the batch, /printer for no code and for every text
\* other than "0".."4"; the tool passes the tier of the integer int() reads,
\* /printer for no code, and for any other code runs no engine at all: the
\* argument parser exits with status 2.
C14_LevelMappingPerVariant ==
    /\ \A n \in 1..Len(web_settings) : web_settings[n] = TierOf(level_in.code)
    /\ cli_settings.done =>
          IF level_in.code \in RefusedCodes
          THEN cli_settings = Exits(2)
          ELSE cli_settings = Returns(TierOf(ReadAs(level_in.code)))

\* A batch of several files and a run of the tool, with a code out of 0..4.
C14_Witness ==
    /\ level_in.code = <<"5">>
    /\ level_in.count >= 2
    /\ Len(web_settings) = level_in.count
    /\ cli_settings.done

\* ------------------------------------------------------------------------
\* Properties of the command line tool
\* ------------------------------------------------------------------------
\* The run of the tool is over and the output file holds a whole document:
\* the engine's run succeeded, and the rewrite (when asked for) succeeded.
CliSucceeded ==
    LET output_file == OutputFile(cli_in.input)
    IN  /\ cli_pc = "done"
        /\ Exists(cli_disk, output_file)
        /\ cli_disk[output_file].kind \in {"compressed", "rewritten"}
        /\ ~cli_exit.warned

\* C19: the size ratio carries no control-flow meaning: whatever the
\* original and the compressed sizes (the original size zero included), a
\* run whose compression and metadata rewrite succeeded ends as a success,
\* with its report printed and the exit status 0.
C19_RatioNoControlFlow ==
    CliSucceeded => cli_exit.reported /\ cli_exit.status = 0 /\ ~cli_exit.raised

\* The same with empty inputs left out: this one holds.
C19_RatioOfNonEmptyInput ==
    (CliSucceeded /\ cli_in.size # 0) =>
        cli_exit.reported /\ cli_exit.status = 0 /\ ~cli_exit.raised

\* add_metadata is running.
InAddMetadata == cli_pc \in {"meta", "meta_write", "meta_move", "meta_copy"}

\* The output file is exactly what the engine wrote.
OutputAsEngineWroteIt ==
    LET output_file == OutputFile(cli_in.input)
    IN  /\ Exists(cli_disk, output_file)
        /\ cli_disk[output_file] = Compressed("cli", cli_in.info)

\* add_metadata runs only on the output of a successful engine run, and
\* only if one of the five options is given.
MetadataGate ==
    /\ InAddMetadata =>
         /\ CliWantsMetadata(cli_in.args)
         /\ Exists(cli_disk, OutputFile(cli_in.input))
         /\ cli_disk[OutputFile(cli_in.input)].kind # "partial"
    /\ ~CliWantsMetadata(cli_in.args) =>
         /\ ~cli_exit.warned
         /\ \A path \in DOMAIN cli_disk :
              cli_disk[path].kind \notin {"rewritten", "partial_rewrite"}

\* A failed rewrite is absorbed: the temporary file is gone, the output is
\* the engine's, and the run goes on to its report.
FailureAbsorbed ==
    cli_exit.warned =>
        /\ cli_pc \in {"stats", "done"}
        /\ ~Exists(cli_disk, MetaTmp(OutputFile(cli_in.input)))
        /\ OutputAsEngineWroteIt
        /\ cli_pc = "done" => cli_exit.reported /\ ~cli_exit.raised

\* C21: in compress_pdf the metadata step is best-effort: add_metadata runs
\* only after a successful compression and only if one of title, author,
\* subject, created, modified is non-empty; if the rewrite fails at any
\* point the error is absorbed, <output>.meta.tmp does not remain, the
\* compressed output is left exactly as the engine produced it, and
\* compress_pdf still finishes its reporting step.
C21_MetadataBestEffort == MetadataGate /\ FailureAbsorbed

\* The same where the move is a rename and the input is not empty: this
\* one holds.
C21_BestEffortRenameNonEmpty ==
    (RenameReplaces(cli_in) /\ cli_in.size # 0) => C21_MetadataBestEffort

\* The gate alone holds in every case.
C21_GateAlone == MetadataGate

\* ------------------------------------------------------------------------
\* Properties of the requests served at the same time
\* ------------------------------------------------------------------------
\* The files whose paths a thread holds: the one process_single_pdf is at,
\* and those of processed_files.
Current(t) ==
    IF t.pc \in {"save", "which", "engine", "rewrite", "move", "copy", "stats"}
    THEN {[uid |-> t.unique_id, input_path |-> t.input_path,
           output_path |-> t.output_path]}
    ELSE {}
Processed(t) ==
    {[uid |-> t.processed_files[n][1][3],
      input_path |-> t.processed_files[n][1],
      output_path |-> t.processed_files[n][2]] :
        n \in 1..Len(t.processed_files)}
HeldFiles == UNION {Current(threads[r]) \cup Processed(threads[r]) : r \in Requests}
NamedPaths(f) == {f.input_path, f.output_path, TempMeta(f.output_path)}

\* The paths of two files, as the code names them, are all different.
DistinctNamedPaths ==
    \A f, g \in HeldFiles :
        /\ Cardinality(NamedPaths(f)) = 3
        /\ f.uid # g.uid => NamedPaths(f) \cap NamedPaths(g) = {}

\* The file at the path is there and holds bytes of the upload uid.
Intact(uid, path) ==
    LET p == At(path)
    IN  p # None /\ Exists(shared_disk, p) /\ shared_disk[p].doc = uid

\* What a thread has written and not yet removed is still there, with the
\* bytes of its own upload: nobody else overwrote or deleted it.
OwnArtifactsIntact ==
    \A r \in Requests :
        LET t == threads[r]
        IN  /\ t.pc \in {"which", "engine", "rewrite", "move", "copy", "stats"}
                => Intact(t.unique_id, t.input_path)
            /\ t.pc \in {"rewrite", "move", "copy", "stats"}
                => Intact(t.unique_id, t.output_path)
            /\ t.pc \in {"move", "copy"}
                => Intact(t.unique_id, TempMeta(t.output_path))
            /\ \A n \in 1..Len(t.processed_files) :
                 (t.pc \notin {"cleanup", "done"} \/ (t.pc = "cleanup" /\ n >= t.k))
                 => /\ Intact(t.processed_files[n][1][3], t.processed_files[n][1])
                    /\ Intact(t.processed_files[n][1][3], t.processed_files[n][2])

\* What a thread has read into its previews and its bundle comes from its
\* own uploads.
OwnReadsOnly ==
    \A r \in Requests :
        LET t == threads[r]
            own == {f.uid : f \in Processed(t)}
        IN  /\ t.file_data \subseteq own
            /\ t.previews # None => {t.previews[1], t.previews[2]} \subseteq own

\* C20: for any interleaving of two requests, the same declared filenames
\* included, every file has input, output and temporary paths distinct from
\* those of every other file of any batch, and no batch reads, overwrites or
\* deletes an artifact of another batch.
C20_BatchesIsolated ==
    DistinctNamedPaths /\ OwnArtifactsIntact /\ OwnReadsOnly

\* A declared filename reaches another file than the path names: the
\* platform normalizes the path.
Normalized ==
    \E r \in Requests : \E n \in 1..Len(batch_files[r]) :
        LET path == InputPath("u", batch_files[r][n])
        IN  At(path) # None /\ At(path) # path

\* The same where the paths reach the files they name: this one holds.
C20_IsolatedUnlessNormalized == Normalized \/ C20_BatchesIsolated

\* The paths as named are distinct in every case.
C20_NamedPathsDistinct == DistinctNamedPaths

====
